---------------------------- MODULE Spec2Model ----------------------------
(***************************************************************************)
(* Model of BinAssist's AnalysisDBService (src/src/services/               *)
(* analysis_db_service.py): the SQLite-backed store of function analyses,  *)
(* the context cache with its expiry, the legacy and native chat tables,   *)
(* the system prompts, and the re-entrant lock every operation takes.      *)
(*                                                                         *)
(* Python and JSON values are tagged tuples: <<"null">>, <<"bool", b>>,    *)
(* <<"num", n>>, <<"str", s>>, <<"list", items>>, <<"obj", pairs>> with    *)
(* pairs a sequence of <<key, value>> in insertion order.  The text of a   *)
(* message (role, content, names) is a sequence of characters.  JSON text  *)
(* is a sequence of tokens <<kind, payload>>.  Timestamps are the texts    *)
(* SQLite compares: <<day, separator code, hour>>.                         *)
(***************************************************************************)
EXTENDS Integers, Sequences, FiniteSets, TLC

VARIABLES
    clock,          \* the instant, in hours (UTC)
    tz,             \* the host's local-time offset from UTC, in hours
    BNAnalysis,     \* table: set of rows
    BNContext,      \* table: set of rows
    BNChatHistory,  \* table: sequence of rows in rowid order
    BNChatMessages, \* table: sequence of rows in rowid order
    SystemPrompts,  \* table: sequence of rows in rowid order
    last,           \* the latest call of the sequential caller and what it returned
    latest,         \* history: per analysis key, the arguments of the latest save
    cached,         \* history: per cache key, the arguments of the latest save and its instant
    written,        \* history: per chat, the native messages committed, in commit order
    pc,             \* per thread: where it stands in the operation it runs
    lockOwner,      \* _db_lock: the owning thread, or NoThread
    lockDepth,      \* _db_lock: the owner's recursion level
    conn,           \* per thread: the connections it holds open
    frame,          \* per thread: the locals of the operation it runs
    llm_providers,  \* SettingsService table: sequence of rows in rowid order
    llm_seq,        \* the highest id llm_providers has given out (AUTOINCREMENT)
    settings,       \* SettingsService table: set of rows
    BNChatMetadata, \* table: set of rows
    mcp_providers,  \* SettingsService table: sequence of rows in rowid order
    mcp_seq,        \* the highest id mcp_providers has given out (AUTOINCREMENT)
    cls,            \* per service: its module, its class attributes and its instance
    slock           \* _db_lock of SettingsService: the owning thread and its level

vars == <<clock, tz, BNAnalysis, BNContext, BNChatHistory, BNChatMessages,
          SystemPrompts, last, latest, written, cached, pc, lockOwner, lockDepth, conn, frame,
          llm_providers, llm_seq, settings, BNChatMetadata, mcp_providers, mcp_seq,
          cls, slock>>

-----------------------------------------------------------------------------
(* Python / JSON values *)

JNull == <<"null">>
JBool(b) == <<"bool", b>>
JNum(n) == <<"num", n>>
JStr(s) == <<"str", s>>
JList(items) == <<"list", items>>
JObj(pairs) == <<"obj", pairs>>

Tag(v) == v[1]

\* SQL NULL in a TEXT column; no JSON text is empty.
NULL == <<>>

\* Python truthiness of the values the store tests with `if x`.
Truthy(v) ==
    CASE Tag(v) = "null" -> FALSE
      [] Tag(v) = "bool" -> v[2]
      [] Tag(v) = "num" -> v[2] # 0
      [] Tag(v) = "str" -> Len(v[2]) > 0
      [] Tag(v) = "list" -> Len(v[2]) > 0
      [] Tag(v) = "obj" -> Len(v[2]) > 0
      [] OTHER -> TRUE

Punct(c) == <<"p", c>>
IsPunct(t, c) == t[1] = "p" /\ t[2] = c

RECURSIVE Dumps(_)
RECURSIVE DumpItems(_)
RECURSIVE DumpPairs(_)

\* json.dumps: the text of a value, as tokens.
Dumps(v) ==
    CASE Tag(v) = "null" -> <<Punct("null")>>
      [] Tag(v) = "bool" -> <<Punct(IF v[2] THEN "true" ELSE "false")>>
      [] Tag(v) = "num" -> <<<<"n", v[2]>>>>
      [] Tag(v) = "str" -> <<<<"s", v[2]>>>>
      [] Tag(v) = "list" -> <<Punct("[")>> \o DumpItems(v[2]) \o <<Punct("]")>>
      [] Tag(v) = "obj" -> <<Punct("{")>> \o DumpPairs(v[2]) \o <<Punct("}")>>

DumpItems(items) ==
    IF Len(items) = 0 THEN <<>>
    ELSE IF Len(items) = 1 THEN Dumps(items[1])
    ELSE Dumps(items[1]) \o <<Punct(",")>> \o DumpItems(Tail(items))

DumpPairs(pairs) ==
    IF Len(pairs) = 0 THEN <<>>
    ELSE LET one == <<<<"s", pairs[1][1]>>, Punct(":")>> \o Dumps(pairs[1][2])
         IN IF Len(pairs) = 1 THEN one
            ELSE one \o <<Punct(",")>> \o DumpPairs(Tail(pairs))

ParseFail == [ok |-> FALSE, val |-> JNull, rest |-> <<>>]
ParseOk(v, rest) == [ok |-> TRUE, val |-> v, rest |-> rest]

RECURSIVE ParseValue(_)
RECURSIVE ParseItems(_, _)
RECURSIVE ParsePairs(_, _)

\* The JSON decoder: one value from the head of a token text.
ParseValue(toks) ==
    IF Len(toks) = 0 THEN ParseFail
    ELSE LET t == Head(toks)
             rest == Tail(toks)
         IN CASE t[1] = "n" -> ParseOk(JNum(t[2]), rest)
              [] t[1] = "s" -> ParseOk(JStr(t[2]), rest)
              [] IsPunct(t, "null") -> ParseOk(JNull, rest)
              [] IsPunct(t, "true") -> ParseOk(JBool(TRUE), rest)
              [] IsPunct(t, "false") -> ParseOk(JBool(FALSE), rest)
              [] IsPunct(t, "[") ->
                    IF Len(rest) > 0 /\ IsPunct(Head(rest), "]")
                    THEN ParseOk(JList(<<>>), Tail(rest))
                    ELSE ParseItems(rest, <<>>)
              [] IsPunct(t, "{") ->
                    IF Len(rest) > 0 /\ IsPunct(Head(rest), "}")
                    THEN ParseOk(JObj(<<>>), Tail(rest))
                    ELSE ParsePairs(rest, <<>>)
              [] OTHER -> ParseFail

ParseItems(toks, acc) ==
    LET r == ParseValue(toks)
    IN IF ~r.ok \/ Len(r.rest) = 0 THEN ParseFail
       ELSE IF IsPunct(Head(r.rest), ",")
            THEN ParseItems(Tail(r.rest), Append(acc, r.val))
       ELSE IF IsPunct(Head(r.rest), "]")
            THEN ParseOk(JList(Append(acc, r.val)), Tail(r.rest))
       ELSE ParseFail

\* A repeated key keeps its first place and takes the later value, as a dict does.
PutPair(pairs, k, v) ==
    IF \E i \in 1..Len(pairs) : pairs[i][1] = k
    THEN [i \in 1..Len(pairs) |-> IF pairs[i][1] = k THEN <<k, v>> ELSE pairs[i]]
    ELSE Append(pairs, <<k, v>>)

ParsePairs(toks, acc) ==
    IF Len(toks) < 2 \/ Head(toks)[1] # "s" \/ ~IsPunct(toks[2], ":") THEN ParseFail
    ELSE LET k == Head(toks)[2]
             r == ParseValue(Tail(Tail(toks)))
         IN IF ~r.ok \/ Len(r.rest) = 0 THEN ParseFail
            ELSE IF IsPunct(Head(r.rest), ",")
                 THEN ParsePairs(Tail(r.rest), PutPair(acc, k, r.val))
            ELSE IF IsPunct(Head(r.rest), "}")
                 THEN ParseOk(JObj(PutPair(acc, k, r.val)), Tail(r.rest))
            ELSE ParseFail

\* json.loads of a text the store wrote itself.
Loads(text) == ParseValue(text).val


-----------------------------------------------------------------------------
(* Timestamps as the texts SQLite compares *)

HoursPerDay == 24
\* The code points of the separators: 'T' in datetime.isoformat(), ' ' in
\* SQLite's CURRENT_TIMESTAMP.
SepT == 84
SepSpace == 32

\* datetime.isoformat() of a naive datetime: 'YYYY-MM-DDTHH:MM:SS'.
IsoFormat(t) == <<t \div HoursPerDay, SepT, t % HoursPerDay>>

\* SQLite's CURRENT_TIMESTAMP: UTC, 'YYYY-MM-DD HH:MM:SS'.
SqlTimestamp(t) == <<t \div HoursPerDay, SepSpace, t % HoursPerDay>>

\* The instant a timestamp text names, whatever its separator.
InstantOf(text) == text[1] * HoursPerDay + text[3]

RECURSIVE TextLess(_, _)
\* a < b for TEXT values under SQLite's BINARY collation (memcmp).
TextLess(a, b) ==
    IF Len(b) = 0 THEN FALSE
    ELSE IF Len(a) = 0 THEN TRUE
    ELSE IF Head(a) # Head(b) THEN Head(a) < Head(b)
    ELSE TextLess(Tail(a), Tail(b))

\* datetime.now(): the host's local wall-clock time.
LocalNow == clock + tz

CURRENT_TIMESTAMP == SqlTimestamp(clock)

-----------------------------------------------------------------------------
(* Bounds and input sets *)

StartClock == 24
MaxClock == 48
TickHours == 6
TZOffsets == {-5, 0, 3}
TTLHours == {1, 24}

MaxThreads == 2
Threads == 1..MaxThreads
NoThread == 0

Hashes == {"h1"}
Functions == {1, 2}
CtxKeys == Hashes \X Functions
CtxData == {JObj(<<<<"code", JStr("a")>>>>), JObj(<<<<"code", JStr("b")>>>>)}

NoKey == <<>>

S_user == <<"u", "s", "e", "r">>
S_assistant == <<"a", "s", "s", "i", "s", "t", "a", "n", "t">>
S_tool == <<"t", "o", "o", "l">>
S_text == <<"t", "e", "x", "t">>
S_tool_use == <<"t", "o", "o", "l", "_", "u", "s", "e">>

ChatIds == {"c1", "c2"}
ChatKeys == Hashes \X ChatIds
MaxRows == 3

\* The closed set of provider tags (ProviderType).
ProviderTypes == {"anthropic", "openai", "ollama", "other"}

\* Native messages: a user turn, an OpenAI assistant turn with a tool call, an
\* Anthropic assistant turn with a text block and a tool_use block.
PUser == JObj(<< <<"role", JStr(S_user)>>, <<"content", JStr(<<"h", "i">>)>> >>)
POpenAITool ==
    JObj(<< <<"role", JStr(S_assistant)>>, <<"content", JNull>>,
            <<"tool_calls", JList(<< JObj(<< <<"function",
                JObj(<< <<"name", JStr(<<"f">>)>>,
                        <<"arguments", JStr(<<"{", "}">>)>> >>)>> >>) >>)>> >>)
PAnthropicTool ==
    JObj(<< <<"role", JStr(S_assistant)>>,
            <<"content", JList(<<
                JObj(<< <<"type", JStr(S_text)>>, <<"text", JStr(<<"o", "k">>)>> >>),
                JObj(<< <<"type", JStr(S_tool_use)>>, <<"name", JStr(<<"f">>)>>,
                        <<"input", JObj(<< << <<"a">>, JNum(1)>> >>)>> >>) >>)>> >>)

\* The (native_message, provider_type) arguments of save_native_message; the
\* last one names no provider of the closed set.
NativeInputs ==
    { <<PUser, "openai">>, <<POpenAITool, "openai">>, <<PAnthropicTool, "anthropic">>,
      <<PUser, "bogus">> }

\* The provider_type argument of the reads; None is the default.
ProviderFilters == {JNull, JStr("openai"), JStr("anthropic")}

MaxPrompts == 3
Prompts == {"p1", "p2"}
Versions == {"v1", "v2"}

\* The rows the concurrent callers may add, over both chat tables.
MaxSaves == 2

\* The locals of a thread that is in no call.
IdleFrame ==
    [op |-> "none", b |-> "", c |-> "", m |-> JNull, provider |-> "",
     role |-> <<>>, content |-> <<>>,
     order |-> 0, seen |-> 0, staged |-> FALSE, raised |-> FALSE, res |-> JNull]

\* The rows _populate_defaults gives the settings table that the model looks at.
DefaultSettings ==
    {[key |-> "system_prompt", value |-> "default prompt", type |-> "string",
      category |-> "system"],
     [key |-> "active_llm_provider", value |-> "", type |-> "string", category |-> "ui"]}

AnFunctions == {1}
QueryTypes == {"explain", "rename"}
AnKeys == Hashes \X AnFunctions \X QueryTypes
Responses == {"r1", "r2"}
\* The metadata argument: None (the default), an empty dict, a dict.
Metadatas == {JNull, JObj(<<>>), JObj(<<<<"model", JStr("m1")>>>>)}

-----------------------------------------------------------------------------
(* The caller's view of a call: what was called, what it returned, whether   *)
(* the call before it was of the same operation, and the parity of the       *)
(* number of calls.  Row ids (AUTOINCREMENT) are not modelled; a call that   *)
(* returns one returns JNull here.                                           *)

Ret(op, key, res) ==
    [op |-> op, key |-> key, res |-> res, again |-> (last.op = op), n |-> 1 - last.n]

\* A DELETE whose commit is missing: closing the connection rolls it back.
DeleteRowsNoCommit(table, gone) == table

\* DELETE of the rows a WHERE clause selected, committed.
DeleteRows(table, gone) == table \ gone

-----------------------------------------------------------------------------
(* Context cache *)

CtxKeyOf(r) == <<r.binary_hash, r.function_start>>

\* INSERT OR REPLACE INTO BNContext, UNIQUE(binary_hash, function_start): the
\* rows in conflict are deleted, then the new row is inserted.
UpsertContext(table, row) ==
    {r \in table : CtxKeyOf(r) # CtxKeyOf(row)} \cup {row}

\* get_context_cache's WHERE clause on expires_at.
ContextVisible(r) ==
    r.expires_at = NULL \/ TextLess(CURRENT_TIMESTAMP, r.expires_at)

\* The sweep without its comparison with the current time.
ContextExpiredAny(r) == r.expires_at # NULL

\* cleanup_expired_context's WHERE clause.
ContextExpired(r) ==
    r.expires_at # NULL /\ ~TextLess(CURRENT_TIMESTAMP, r.expires_at)

\* The two services, each a module with a class and a module-level instance.
Services == {"analysis", "settings"}

\* A service whose module has been imported: the class has its instance, and
\* __init__ has run on it, once.
ImportedClass ==
    [module |-> "imported", importer |-> NoThread, new_lock |-> NoThread,
     instance |-> 1, initialized |-> TRUE, db_locks |-> 1, db_path |-> "path",
     inits |-> 1]

\* An RLock no thread owns.
FreeLock == [owner |-> NoThread, depth |-> 0]

\* A call of the sequential caller: no thread is inside an operation ...
NoThreadMoves == UNCHANGED <<pc, lockOwner, lockDepth, conn, frame, cls, slock>>

\* ... and the call is none on the chat names or on the MCP providers.
SeqThreads ==
    /\ NoThreadMoves
    /\ UNCHANGED <<BNChatMetadata, mcp_providers, mcp_seq>>

\* ... and the call is one of AnalysisDBService: the settings database stays.
SeqStores ==
    /\ SeqThreads
    /\ UNCHANGED <<llm_providers, llm_seq, settings>>

save_context_cache(b, f, data, ttl) ==
    LET row == [binary_hash |-> b, function_start |-> f,
                context_data |-> Dumps(data),
                expires_at |-> IsoFormat(LocalNow + ttl)]
    IN /\ BNContext' = UpsertContext(BNContext, row)
       /\ cached' = [cached EXCEPT ![<<b, f>>] =
                        [set |-> TRUE, data |-> data, at |-> clock, ttl |-> ttl]]
       /\ last' = Ret("save_context_cache", <<b, f>>, JNull)
       /\ UNCHANGED <<clock, tz, BNAnalysis, BNChatHistory, BNChatMessages,
                      SystemPrompts, latest, written>>
       /\ SeqStores

\* The SELECT of get_context_cache, then fetchone and json.loads.
ContextLookup(b, f) ==
    LET rows == {r \in BNContext : CtxKeyOf(r) = <<b, f>> /\ ContextVisible(r)}
    IN IF rows = {} THEN JNull
       ELSE Loads((CHOOSE r \in rows : TRUE).context_data)

\* A lookup that deletes the row it finds expired.
get_context_cache_sweeping(b, f) ==
    /\ last' = Ret("get_context_cache", <<b, f>>, ContextLookup(b, f))
    /\ BNContext' = {r \in BNContext : CtxKeyOf(r) # <<b, f>> \/ ContextVisible(r)}
    /\ UNCHANGED <<clock, tz, BNAnalysis, BNChatHistory, BNChatMessages,
                   SystemPrompts, latest, written, cached>>
    /\ SeqStores

get_context_cache(b, f) ==
    /\ last' = Ret("get_context_cache", <<b, f>>, ContextLookup(b, f))
    /\ UNCHANGED <<clock, tz, BNAnalysis, BNContext, BNChatHistory, BNChatMessages,
                   SystemPrompts, latest, written, cached>>
    /\ SeqStores

cleanup_expired_context ==
    LET gone == {r \in BNContext : ContextExpired(r)}
    IN /\ BNContext' = DeleteRows(BNContext, gone)
       /\ last' = Ret("cleanup_expired_context", NoKey, JNum(Cardinality(gone)))
       /\ UNCHANGED <<clock, tz, BNAnalysis, BNChatHistory, BNChatMessages,
                      SystemPrompts, latest, written, cached>>
       /\ SeqStores

\* Time passes between two calls.
Tick ==
    /\ clock + TickHours <= MaxClock
    /\ clock' = clock + TickHours
    /\ last' = Ret("time_passes", NoKey, JNull)
    /\ UNCHANGED <<tz, BNAnalysis, BNContext, BNChatHistory, BNChatMessages,
                   SystemPrompts, latest, written, cached>>
    /\ SeqStores

-----------------------------------------------------------------------------
(* The store after construction: _create_tables has made the tables, all     *)
(* empty; no thread is in a call.                                            *)

Construct ==
    /\ clock = StartClock
    /\ BNAnalysis = {}
    /\ BNContext = {}
    /\ BNChatHistory = <<>>
    /\ BNChatMessages = <<>>
    /\ SystemPrompts = <<>>
    /\ last = [op |-> "construct", key |-> NoKey, res |-> JNull,
               again |-> FALSE, n |-> 0]
    /\ latest = [k \in AnKeys |-> [set |-> FALSE, response |-> "", metadata |-> JNull]]
    /\ written = [k \in ChatKeys |-> <<>>]
    /\ cached = [k \in CtxKeys |-> [set |-> FALSE, data |-> JNull, at |-> 0, ttl |-> 0]]
    /\ pc = [t \in Threads |-> "idle"]
    /\ lockOwner = NoThread
    /\ lockDepth = 0
    /\ conn = [t \in Threads |-> 0]
    /\ frame = [t \in Threads |-> IdleFrame]
    /\ llm_providers = <<>>
    /\ llm_seq = 0
    /\ settings = DefaultSettings
    /\ BNChatMetadata = {}
    /\ mcp_providers = <<>>
    /\ mcp_seq = 0
    /\ cls = [s \in Services |-> ImportedClass]
    /\ slock = FreeLock

\* A host in any of the time zones.
InitAnyZone == Construct /\ tz \in TZOffsets

\* A host whose local time is UTC.
Init == Construct /\ tz = 0

NextCache ==
    \/ \E k \in CtxKeys, d \in CtxData, ttl \in TTLHours :
          save_context_cache(k[1], k[2], d, ttl)
    \/ \E k \in CtxKeys : get_context_cache(k[1], k[2])
    \/ cleanup_expired_context
    \/ Tick

SpecCache == InitAnyZone /\ [][NextCache]_vars


-----------------------------------------------------------------------------
(* Claims about the context cache, checked under SpecCache *)

\* The instant (UTC) at which a row written by save_context_cache expires:
\* its expires_at names a local time.
Deadline(r) == InstantOf(r.expires_at) - tz

\* C2: get_context_cache returns a blob only if the row's expires_at is null
\* or later than the current time; a row whose expires_at is in the past is
\* never returned, swept or not.
C2_GetNeverReturnsExpired ==
    (last.op = "get_context_cache" /\ last.res # JNull) =>
        \A r \in BNContext :
            CtxKeyOf(r) = last.key => (r.expires_at = NULL \/ Deadline(r) > clock)

\* C3: after save_context_cache(k, d, ttl) with ttl > 0, a get_context_cache(k)
\* issued before the ttl has elapsed, with no later save for k, returns d; and
\* there is one row per (binary_hash, function_start) at most.
C3_GetWithinTtlReturnsSaved ==
    /\ (last.op = "get_context_cache" /\ cached[last.key].set
            /\ clock < cached[last.key].at + cached[last.key].ttl) =>
          last.res = cached[last.key].data
    /\ \A k \in CtxKeys : Cardinality({r \in BNContext : CtxKeyOf(r) = k}) <= 1

\* The rows get_context_cache refuses to return at this instant.
Refused == {r \in BNContext : ContextLookup(r.binary_hash, r.function_start) = JNull}

C5_CleanupIdempotent ==
    [][last'.op = "cleanup_expired_context" =>
          /\ last.op = "cleanup_expired_context" =>
                (last'.res = JNum(0) /\ BNContext' = BNContext)
          /\ Refused = {} => (last'.res = JNum(0) /\ BNContext' = BNContext)]_vars

C5_Witness ==
    /\ last.op = "cleanup_expired_context"
    /\ last.again
    /\ last.res = JNum(0)
    /\ BNContext # {}
    /\ \E k \in CtxKeys : cached[k].set /\ \A r \in BNContext : CtxKeyOf(r) # k


-----------------------------------------------------------------------------
(* Function analyses *)

AnKeyOf(r) == <<r.binary_hash, r.function_start, r.query_type>>

\* An INSERT that leaves the rows in conflict where they are.
InsertKeepingOld(table, row) == table \cup {row}

\* INSERT OR REPLACE INTO BNAnalysis, UNIQUE(binary_hash, function_start, query_type).
UpsertAnalysis(table, row) ==
    {r \in table : AnKeyOf(r) # AnKeyOf(row)} \cup {row}

\* dict.get(key, default)
Field(obj, key, default) ==
    LET hits == {i \in 1..Len(obj[2]) : obj[2][i][1] = key}
    IN IF hits = {} THEN default ELSE obj[2][CHOOSE i \in hits : TRUE][2]

HasField(obj, key) == \E i \in 1..Len(obj[2]) : obj[2][i][1] = key

save_function_analysis(b, f, q, response, metadata) ==
    LET metadata_json == IF Truthy(metadata) THEN Dumps(metadata) ELSE NULL
        row == [binary_hash |-> b, function_start |-> f, query_type |-> q,
                response |-> response, metadata |-> metadata_json,
                created_at |-> CURRENT_TIMESTAMP, updated_at |-> CURRENT_TIMESTAMP]
    IN /\ BNAnalysis' = UpsertAnalysis(BNAnalysis, row)
       /\ latest' = [latest EXCEPT ![<<b, f, q>>] =
                        [set |-> TRUE, response |-> response, metadata |-> metadata]]
       /\ last' = Ret("save_function_analysis", <<b, f, q>>, JNull)
       /\ UNCHANGED <<clock, tz, BNContext, BNChatHistory, BNChatMessages,
                      SystemPrompts, written, cached>>
       /\ SeqStores

\* The dict get_function_analysis builds from a row.
AnalysisDict(r) ==
    JObj(<< <<"binary_hash", JStr(r.binary_hash)>>,
            <<"function_start", JNum(r.function_start)>>,
            <<"query_type", JStr(r.query_type)>>,
            <<"response", JStr(r.response)>>,
            <<"metadata", IF r.metadata # NULL THEN Loads(r.metadata) ELSE JObj(<<>>)>>,
            <<"created_at", JStr(r.created_at)>>,
            <<"updated_at", JStr(r.updated_at)>> >>)

\* The SELECT of get_function_analysis and fetchone.
AnalysisLookup(b, f, q) ==
    LET rows == {r \in BNAnalysis : AnKeyOf(r) = <<b, f, q>>}
    IN IF rows = {} THEN JNull ELSE AnalysisDict(CHOOSE r \in rows : TRUE)

get_function_analysis(b, f, q) ==
    /\ last' = Ret("get_function_analysis", <<b, f, q>>, AnalysisLookup(b, f, q))
    /\ UNCHANGED <<clock, tz, BNAnalysis, BNContext, BNChatHistory, BNChatMessages,
                   SystemPrompts, latest, written, cached>>
    /\ SeqStores

delete_function_analysis(b, f, q) ==
    LET gone == {r \in BNAnalysis : AnKeyOf(r) = <<b, f, q>>}
    IN /\ BNAnalysis' = DeleteRows(BNAnalysis, gone)
       /\ latest' = [latest EXCEPT ![<<b, f, q>>] =
                        [set |-> FALSE, response |-> "", metadata |-> JNull]]
       /\ last' = Ret("delete_function_analysis", <<b, f, q>>,
                      JBool(Cardinality(gone) > 0))
       /\ UNCHANGED <<clock, tz, BNContext, BNChatHistory, BNChatMessages,
                      SystemPrompts, written, cached>>
       /\ SeqStores

NextAnalysis ==
    \/ \E k \in AnKeys, r \in Responses, m \in Metadatas :
          save_function_analysis(k[1], k[2], k[3], r, m)
    \/ \E k \in AnKeys : get_function_analysis(k[1], k[2], k[3])
    \/ \E k \in AnKeys : delete_function_analysis(k[1], k[2], k[3])

SpecAnalysis == Init /\ [][NextAnalysis]_vars

\* C6: there is at most one BNAnalysis row per (binary_hash, function_start,
\* query_type), and get_function_analysis returns the response and metadata of
\* the most recent save of the triple (the empty dict when that save gave no
\* metadata), nothing of an earlier save, and None once the triple is deleted.
C6_UpsertReplaces ==
    \A k \in AnKeys :
        /\ Cardinality({r \in BNAnalysis : AnKeyOf(r) = k}) <= 1
        /\ LET got == AnalysisLookup(k[1], k[2], k[3])
           IN IF latest[k].set
              THEN /\ got # JNull
                   /\ Field(got, "response", JNull) = JStr(latest[k].response)
                   /\ Field(got, "metadata", JNull) =
                         (IF Truthy(latest[k].metadata) THEN latest[k].metadata
                          ELSE JObj(<<>>))
              ELSE got = JNull

C6_Witness ==
    /\ last.op = "get_function_analysis"
    /\ last.res # JNull
    /\ latest[last.key].metadata = JNull
    /\ Field(last.res, "metadata", JNull) = JObj(<<>>)
    /\ \E k \in AnKeys : k # last.key /\ Truthy(latest[k].metadata)


-----------------------------------------------------------------------------
(* Native messages *)

ChatKeyOf(r) == <<r.binary_hash, r.chat_id>>

\* The rows of a binary, whatever their chat.
RowsOfHash(table, b, c) == SelectSeq(table, LAMBDA r : r.binary_hash = b)

\* The rows of a table, a sequence, that a predicate selects, in rowid order.
RowsOf(table, b, c) == SelectSeq(table, LAMBDA r : ChatKeyOf(r) = <<b, c>>)

MaxOrder(rows) ==
    CHOOSE m \in {rows[i].message_order : i \in 1..Len(rows)} :
        \A i \in 1..Len(rows) : rows[i].message_order <= m

\* One more than the highest message_order of the table, whatever the chat.
NextOrderOfTable(table, b, c) ==
    IF Len(table) = 0 THEN -1 + 1 ELSE MaxOrder(table) + 1

\* SELECT COALESCE(MAX(message_order), -1) + 1 ... WHERE binary_hash = ? AND chat_id = ?
NextOrder(table, b, c) ==
    LET rows == RowsOf(table, b, c)
    IN IF Len(rows) = 0 THEN -1 + 1 ELSE MaxOrder(rows) + 1

RECURSIVE ConcatTexts(_)
ConcatTexts(texts) ==
    IF Len(texts) = 0 THEN <<>> ELSE Head(texts) \o ConcatTexts(Tail(texts))

\* The text of the text-typed blocks of an Anthropic content list, in order.
BlockTexts(blocks) ==
    ConcatTexts([i \in 1..Len(blocks) |->
        IF Tag(blocks[i]) = "obj" /\ Field(blocks[i], "type", JNull) = JStr(S_text)
        THEN LET t == Field(blocks[i], "text", JStr(<<>>))
             IN IF Tag(t) = "str" THEN t[2] ELSE <<>>
        ELSE <<>>])

HasToolUse(blocks) ==
    \E i \in 1..Len(blocks) :
        Tag(blocks[i]) = "obj" /\ Field(blocks[i], "type", JNull) = JStr(S_tool_use)

\* Where a payload carries its tool calls, per provider.
PayloadHasToolCall(m, provider) ==
    LET content == Field(m, "content", JNull)
        top == Field(m, "tool_calls", JNull)
        inner == Field(m, "message", JNull)
    IN CASE provider = "anthropic" -> Tag(content) = "list" /\ HasToolUse(content[2])
         [] provider = "openai" -> Truthy(top)
         [] provider = "ollama" ->
               \/ Truthy(top)
               \/ (Tag(inner) = "obj" /\ Truthy(Field(inner, "tool_calls", JNull)))
         [] OTHER -> FALSE

PayloadText(m, provider) ==
    LET content == Field(m, "content", JNull)
    IN IF Tag(content) = "str" THEN content[2]
       ELSE IF provider = "anthropic" /\ Tag(content) = "list" THEN BlockTexts(content[2])
       ELSE <<>>

\* MessageFormatService.extract_display_info: (role, content_text, message_type).
ExtractDisplayInfo(m, provider) ==
    LET r == Field(m, "role", JStr(S_user))
        role == IF Tag(r) = "str" THEN r[2] ELSE S_user
        text == PayloadText(m, provider)
        tool == PayloadHasToolCall(m, provider)
    IN [role |-> role,
        content_text |-> text,
        message_type |->
            IF role = S_tool THEN "tool_result"
            ELSE IF tool /\ Len(text) > 0 THEN "mixed"
            ELSE IF tool THEN "tool_call"
            ELSE "text"]

\* A payload stored as its display fields only.
StoredTextOfDisplay(m) ==
    Dumps(JObj(<< <<"role", Field(m, "role", JNull)>>,
                  <<"content", Field(m, "content", JNull)>> >>))

\* json.dumps(native_message), the native_message_data column.
StoredText(m) == Dumps(m)

\* The row save_native_message inserts.
NativeRow(b, c, order, m, provider) ==
    LET info == ExtractDisplayInfo(m, provider)
    IN [binary_hash |-> b, chat_id |-> c, message_order |-> order,
        provider_type |-> provider, native_message_data |-> StoredText(m),
        role |-> info.role, content_text |-> info.content_text,
        message_type |-> info.message_type,
        parent_message_id |-> NULL, conversation_thread_id |-> NULL,
        created_at |-> CURRENT_TIMESTAMP]

Raise(kind) == <<"raise", kind>>

\* Every tag taken for a provider.
AnyProviderValid(provider) == TRUE

\* ProviderType(provider_type) finds a member of the enum.
ValidProvider(provider) == provider \in ProviderTypes

save_native_message(b, c, m, provider) ==
    /\ Len(BNChatMessages) < MaxRows
    /\ IF ~ValidProvider(provider)
       THEN /\ last' = Ret("save_native_message", <<b, c>>, Raise("ValueError"))
            /\ UNCHANGED <<BNChatMessages, written>>
       ELSE /\ BNChatMessages' = Append(BNChatMessages,
                    NativeRow(b, c, NextOrder(BNChatMessages, b, c), m, provider))
            /\ written' = [written EXCEPT ![<<b, c>>] =
                    Append(@, [provider |-> provider, payload |-> m, by |-> NoThread,
                               seen |-> Len(RowsOf(BNChatMessages, b, c))])]
            /\ last' = Ret("save_native_message", <<b, c>>, JNull)
    /\ UNCHANGED <<clock, tz, BNAnalysis, BNContext, BNChatHistory,
                   SystemPrompts, latest, cached>>
    /\ SeqStores

RECURSIVE OrderRowsDesc(_)
\* ORDER BY message_order DESC.
OrderRowsDesc(rows) ==
    IF Len(rows) = 0 THEN <<>>
    ELSE LET i == CHOOSE i \in 1..Len(rows) :
                    \A j \in 1..Len(rows) :
                        \/ rows[i].message_order > rows[j].message_order
                        \/ (rows[i].message_order = rows[j].message_order /\ i <= j)
             others == [j \in 1..(Len(rows) - 1) |-> IF j < i THEN rows[j] ELSE rows[j + 1]]
         IN <<rows[i]>> \o OrderRowsDesc(others)

RECURSIVE OrderRows(_)
\* ORDER BY message_order ASC; rows of equal order stay in rowid order.
OrderRows(rows) ==
    IF Len(rows) = 0 THEN <<>>
    ELSE LET i == CHOOSE i \in 1..Len(rows) :
                    \A j \in 1..Len(rows) :
                        \/ rows[i].message_order < rows[j].message_order
                        \/ (rows[i].message_order = rows[j].message_order /\ i <= j)
             others == [j \in 1..(Len(rows) - 1) |-> IF j < i THEN rows[j] ELSE rows[j + 1]]
         IN <<rows[i]>> \o OrderRows(others)

\* The rows the SELECTs of the native reads return: with a truthy provider_type
\* those of that provider, else all rows of the chat.
SelectNative(b, c, filter) ==
    LET rows == RowsOf(BNChatMessages, b, c)
    IN OrderRows(IF Truthy(filter)
                 THEN SelectSeq(rows, LAMBDA r : r.provider_type = filter[2])
                 ELSE rows)

\* The dict get_native_messages builds from a row.
NativeDict(r) ==
    JObj(<< <<"message_order", JNum(r.message_order)>>,
            <<"provider_type", JStr(r.provider_type)>>,
            <<"native_message_data", Loads(r.native_message_data)>>,
            <<"role", JStr(r.role)>>,
            <<"content_text", JStr(r.content_text)>>,
            <<"message_type", JStr(r.message_type)>>,
            <<"parent_message_id", JNull>>,
            <<"conversation_thread_id", JNull>>,
            <<"created_at", JStr(r.created_at)>> >>)

NativeMessages(b, c, filter) ==
    LET rows == SelectNative(b, c, filter)
    IN [i \in 1..Len(rows) |-> NativeDict(rows[i])]

NativeMessagesForProvider(b, c, provider) ==
    LET rows == SelectNative(b, c, JStr(provider))
    IN [i \in 1..Len(rows) |-> Loads(rows[i].native_message_data)]

get_native_messages(b, c, filter) ==
    /\ last' = Ret("get_native_messages", <<b, c, filter>>,
                   JList(NativeMessages(b, c, filter)))
    /\ UNCHANGED <<clock, tz, BNAnalysis, BNContext, BNChatHistory, BNChatMessages,
                   SystemPrompts, latest, written, cached>>
    /\ SeqStores

get_native_messages_for_provider(b, c, provider) ==
    /\ last' = Ret("get_native_messages_for_provider", <<b, c, JStr(provider)>>,
                   JList(NativeMessagesForProvider(b, c, provider)))
    /\ UNCHANGED <<clock, tz, BNAnalysis, BNContext, BNChatHistory, BNChatMessages,
                   SystemPrompts, latest, written, cached>>
    /\ SeqStores

\* A delete of the messages that takes the name of the chat with them.
delete_native_chat_cascading(b, c) ==
    LET kept == SelectSeq(BNChatMessages, LAMBDA r : ChatKeyOf(r) # <<b, c>>)
    IN /\ BNChatMessages' = kept
       /\ BNChatMetadata' = {r \in BNChatMetadata : ChatKeyOf(r) # <<b, c>>}
       /\ written' = [written EXCEPT ![<<b, c>>] = <<>>]
       /\ last' = Ret("delete_native_chat", <<b, c>>,
                      JBool(Len(BNChatMessages) - Len(kept) > 0))
       /\ UNCHANGED <<clock, tz, BNAnalysis, BNContext, BNChatHistory,
                      SystemPrompts, latest, cached>>
       /\ NoThreadMoves
       /\ UNCHANGED <<mcp_providers, mcp_seq, llm_providers, llm_seq, settings>>

delete_native_chat(b, c) ==
    LET kept == SelectSeq(BNChatMessages, LAMBDA r : ChatKeyOf(r) # <<b, c>>)
    IN /\ BNChatMessages' = kept
       /\ written' = [written EXCEPT ![<<b, c>>] = <<>>]
       /\ last' = Ret("delete_native_chat", <<b, c>>,
                      JBool(Len(BNChatMessages) - Len(kept) > 0))
       /\ UNCHANGED <<clock, tz, BNAnalysis, BNContext, BNChatHistory,
                      SystemPrompts, latest, cached>>
       /\ SeqStores

NextChat ==
    \/ \E k \in ChatKeys, in \in NativeInputs :
          save_native_message(k[1], k[2], in[1], in[2])
    \/ \E k \in ChatKeys, f \in ProviderFilters : get_native_messages(k[1], k[2], f)
    \/ \E k \in ChatKeys, f \in ProviderFilters \ {JNull} :
          get_native_messages_for_provider(k[1], k[2], f[2])
    \/ \E k \in ChatKeys : delete_native_chat(k[1], k[2])

SpecChat == Init /\ [][NextChat]_vars


-----------------------------------------------------------------------------
(* Claims about the replay-format reads, checked under SpecChat *)

Count(seq, x) == Cardinality({i \in 1..Len(seq) : seq[i] = x})

Payloads == {in[1] : in \in NativeInputs}

\* C7: every native message saved under a provider comes back from
\* get_native_messages_for_provider, and in the native_message_data field of
\* get_native_messages, structurally identical to what was saved, whatever
\* role, content_text and message_type were derived from it.
C7_PayloadRoundTrip ==
    \A k \in ChatKeys :
        /\ LET all == NativeMessages(k[1], k[2], JNull)
           IN \A i \in 1..Len(all) :
                 LET at == Field(all[i], "message_order", JNull)[2] + 1
                 IN /\ at \in 1..Len(written[k])
                    /\ Field(all[i], "native_message_data", JNull) = written[k][at].payload
        /\ \A f \in ProviderFilters \ {JNull} :
              LET got == NativeMessagesForProvider(k[1], k[2], f[2])
                  saved == SelectSeq(written[k], LAMBDA w : w.provider = f[2])
              IN \A m \in Payloads :
                    Count(got, m) = Count([i \in 1..Len(saved) |-> saved[i].payload], m)

C7_Witness ==
    /\ last.op = "get_native_messages_for_provider"
    /\ Len(last.res[2]) = 2
    /\ last.res[2][1] = POpenAITool
    /\ last.res[2][2] = PUser

\* C8: the replay-format reads return the rows of the chat in strictly
\* increasing message_order, which is the order the writes were committed in;
\* without a filter get_native_messages returns every row of the chat, with a
\* provider filter exactly the sub-sequence of the rows of that provider.
C8_ReplayInCommitOrder ==
    \A k \in ChatKeys :
        LET all == NativeMessages(k[1], k[2], JNull)
        IN /\ Len(all) = Len(RowsOf(BNChatMessages, k[1], k[2]))
           /\ Len(all) = Len(written[k])
           /\ \A i \in 1..Len(all) :
                 /\ Field(all[i], "provider_type", JNull) = JStr(written[k][i].provider)
                 /\ \A j \in 1..Len(all) :
                       i < j => Field(all[i], "message_order", JNull)[2]
                                    < Field(all[j], "message_order", JNull)[2]
           /\ \A f \in ProviderFilters \ {JNull} :
                 LET some == SelectSeq(all,
                                LAMBDA d : Field(d, "provider_type", JNull) = f)
                 IN /\ NativeMessages(k[1], k[2], f) = some
                    /\ NativeMessagesForProvider(k[1], k[2], f[2]) =
                          [i \in 1..Len(some) |->
                              Field(some[i], "native_message_data", JNull)]

C8_Witness ==
    /\ last.op = "get_native_messages"
    /\ last.key[3] = JStr("openai")
    /\ Len(last.res[2]) = 2
    /\ Len(written[<<last.key[1], last.key[2]>>]) = 3
    /\ written[<<last.key[1], last.key[2]>>][2].provider = "anthropic"


-----------------------------------------------------------------------------
(* System prompts *)

save_system_prompt(prompt, version) ==
    /\ Len(SystemPrompts) < MaxPrompts
    /\ SystemPrompts' = Append(SystemPrompts,
            [prompt |-> prompt, version |-> version, is_active |-> 0,
             created_at |-> CURRENT_TIMESTAMP])
    /\ last' = Ret("save_system_prompt", <<version>>, JNull)
    /\ UNCHANGED <<clock, tz, BNAnalysis, BNContext, BNChatHistory, BNChatMessages,
                   latest, written, cached>>
    /\ SeqStores

\* UPDATE SystemPrompts SET is_active = 0
DeactivateAll(table) == [i \in 1..Len(table) |-> [table[i] EXCEPT !.is_active = 0]]

\* UPDATE SystemPrompts SET is_active = 1 WHERE version = ?
ActivateVersion(table, version) ==
    [i \in 1..Len(table) |->
        IF table[i].version = version THEN [table[i] EXCEPT !.is_active = 1]
        ELSE table[i]]

\* cursor.rowcount of the second UPDATE.
RowsOfVersion(table, version) ==
    Cardinality({i \in 1..Len(table) : table[i].version = version})

set_active_system_prompt(version) ==
    /\ SystemPrompts' = ActivateVersion(DeactivateAll(SystemPrompts), version)
    /\ last' = Ret("set_active_system_prompt", <<version>>,
                   JBool(RowsOfVersion(SystemPrompts, version) > 0))
    /\ UNCHANGED <<clock, tz, BNAnalysis, BNContext, BNChatHistory, BNChatMessages,
                   latest, written, cached>>
    /\ SeqStores

ActiveRows == {i \in 1..Len(SystemPrompts) : SystemPrompts[i].is_active = 1}

\* WHERE is_active = 1 ORDER BY created_at DESC LIMIT 1: the order among rows of
\* one created_at is SQLite's to choose.
ActivePromptCandidates ==
    {i \in ActiveRows :
        \A j \in ActiveRows :
            ~TextLess(SystemPrompts[i].created_at, SystemPrompts[j].created_at)}

get_active_system_prompt ==
    /\ \/ /\ ActiveRows = {}
          /\ last' = Ret("get_active_system_prompt", NoKey, JNull)
       \/ \E i \in ActivePromptCandidates :
             last' = Ret("get_active_system_prompt", NoKey,
                         JStr(SystemPrompts[i].prompt))
    /\ UNCHANGED <<clock, tz, BNAnalysis, BNContext, BNChatHistory, BNChatMessages,
                   SystemPrompts, latest, written, cached>>
    /\ SeqStores

NextPrompts ==
    \/ \E p \in Prompts, v \in Versions : save_system_prompt(p, v)
    \/ \E v \in Versions : set_active_system_prompt(v)
    \/ get_active_system_prompt

SpecPrompts == Init /\ [][NextPrompts]_vars

\* C9: at most one row of SystemPrompts has is_active = 1, whatever
\* save_system_prompt and set_active_system_prompt calls were made, several
\* saves of one version string included.
C9_AtMostOneActive == Cardinality(ActiveRows) <= 1


-----------------------------------------------------------------------------
(* Caller threads.  A call is a sequence of steps: `with self._db_lock`,    *)
(* _get_connection, the statements, commit or rollback, conn.close, the end *)
(* of the with block.  A statement of an open transaction is staged in the  *)
(* thread's frame and reaches the table at commit.                          *)

\* A lock anyone may take at any time.
LockFreeAlways(t) == TRUE

\* threading.RLock: free, or already owned by the thread that asks.
LockFree(t) == lockOwner = NoThread \/ lockOwner = t

SavesInFlight ==
    Cardinality({t \in Threads :
        frame[t].op \in {"save_native_message", "save_chat_message"}
            /\ pc[t] \in {"lock", "conn", "select", "insert", "commit"}
            /\ ~frame[t].raised})

ConcFrame ==
    UNCHANGED <<clock, tz, BNAnalysis, SystemPrompts, last, latest, cached,
                llm_providers, llm_seq, settings, BNChatMetadata, mcp_providers, mcp_seq,
                cls, slock>>

call_save_native_message(t, b, c, m, provider) ==
    /\ pc[t] = "idle"
    /\ provider \in ProviderTypes
    /\ Len(BNChatMessages) + Len(BNChatHistory) + SavesInFlight < MaxSaves
    /\ frame' = [frame EXCEPT ![t] = [IdleFrame EXCEPT !.op = "save_native_message",
                     !.b = b, !.c = c, !.m = m, !.provider = provider,
                     !.seen = Len(RowsOf(BNChatMessages, b, c))]]
    /\ pc' = [pc EXCEPT ![t] = "lock"]
    /\ UNCHANGED <<BNContext, BNChatHistory, BNChatMessages, written,
                   lockOwner, lockDepth, conn>>
    /\ ConcFrame

call_save_chat_message(t, b, c, role, content) ==
    /\ pc[t] = "idle"
    /\ Len(BNChatMessages) + Len(BNChatHistory) + SavesInFlight < MaxSaves
    /\ frame' = [frame EXCEPT ![t] = [IdleFrame EXCEPT !.op = "save_chat_message",
                     !.b = b, !.c = c, !.role = role, !.content = content,
                     !.seen = Len(RowsOf(BNChatHistory, b, c))]]
    /\ pc' = [pc EXCEPT ![t] = "lock"]
    /\ UNCHANGED <<BNContext, BNChatHistory, BNChatMessages, written,
                   lockOwner, lockDepth, conn>>
    /\ ConcFrame

call_get_native_messages_for_provider(t, b, c, provider) ==
    /\ pc[t] = "idle"
    /\ frame' = [frame EXCEPT ![t] = [IdleFrame EXCEPT
                     !.op = "get_native_messages_for_provider",
                     !.b = b, !.c = c, !.provider = provider]]
    /\ pc' = [pc EXCEPT ![t] = "lock"]
    /\ UNCHANGED <<BNContext, BNChatHistory, BNChatMessages, written,
                   lockOwner, lockDepth, conn>>
    /\ ConcFrame

\* cleanup_database starts with DatabaseCleanup.cleanup_expired_data(self._db_path),
\* outside any `with self._db_lock`.
call_cleanup_database(t) ==
    /\ pc[t] = "idle"
    /\ frame' = [frame EXCEPT ![t] = [IdleFrame EXCEPT !.op = "cleanup_database"]]
    /\ pc' = [pc EXCEPT ![t] = "ext_conn"]
    /\ UNCHANGED <<BNContext, BNChatHistory, BNChatMessages, written,
                   lockOwner, lockDepth, conn>>
    /\ ConcFrame

\* DatabaseCleanup.cleanup_expired_data opens the database file it is given.
ExtConnect(t) ==
    /\ pc[t] = "ext_conn"
    /\ conn' = [conn EXCEPT ![t] = @ + 1]
    /\ pc' = [pc EXCEPT ![t] = "ext_run"]
    /\ UNCHANGED <<BNContext, BNChatHistory, BNChatMessages, written,
                   lockOwner, lockDepth, frame>>
    /\ ConcFrame

\* ... deletes the expired context rows and counts them ...
ExtRun(t) ==
    /\ pc[t] = "ext_run"
    /\ LET gone == {r \in BNContext : ContextExpired(r)}
       IN /\ BNContext' = DeleteRows(BNContext, gone)
          /\ frame' = [frame EXCEPT ![t].res = JNum(Cardinality(gone))]
    /\ pc' = [pc EXCEPT ![t] = "ext_close"]
    /\ UNCHANGED <<BNChatHistory, BNChatMessages, written, lockOwner, lockDepth, conn>>
    /\ ConcFrame

\* ... and closes its connection; cleanup_database goes on to
\* self.cleanup_expired_context().
ExtClose(t) ==
    /\ pc[t] = "ext_close"
    /\ conn' = [conn EXCEPT ![t] = @ - 1]
    /\ pc' = [pc EXCEPT ![t] = "lock"]
    /\ UNCHANGED <<BNContext, BNChatHistory, BNChatMessages, written,
                   lockOwner, lockDepth, frame>>
    /\ ConcFrame

\* with self._db_lock:
Acquire(t) ==
    /\ pc[t] = "lock"
    /\ LockFree(t)
    /\ lockOwner' = t
    /\ lockDepth' = lockDepth + 1
    /\ pc' = [pc EXCEPT ![t] = "conn"]
    /\ UNCHANGED <<BNContext, BNChatHistory, BNChatMessages, written, conn, frame>>
    /\ ConcFrame

\* conn = self._get_connection()
Connect(t) ==
    /\ pc[t] = "conn"
    /\ conn' = [conn EXCEPT ![t] = @ + 1]
    /\ pc' = [pc EXCEPT ![t] =
                CASE frame[t].op \in {"save_native_message", "save_chat_message"} -> "select"
                  [] frame[t].op = "get_native_messages_for_provider" -> "read"
                  [] OTHER -> "sweep"]
    /\ UNCHANGED <<BNContext, BNChatHistory, BNChatMessages, written,
                   lockOwner, lockDepth, frame>>
    /\ ConcFrame

\* The table a save writes to.
TableOf(op) == IF op = "save_native_message" THEN BNChatMessages ELSE BNChatHistory

\* message_order = cursor.fetchone()[0]
SelectOrder(t) ==
    /\ pc[t] = "select"
    /\ frame' = [frame EXCEPT ![t].order =
                    NextOrder(TableOf(frame[t].op), frame[t].b, frame[t].c)]
    /\ pc' = [pc EXCEPT ![t] = "insert"]
    /\ UNCHANGED <<BNContext, BNChatHistory, BNChatMessages, written,
                   lockOwner, lockDepth, conn>>
    /\ ConcFrame

\* UNIQUE(binary_hash, chat_id, message_order): a row of that key is there.
Conflicts(table, b, c, order) ==
    \E i \in 1..Len(table) :
        ChatKeyOf(table[i]) = <<b, c>> /\ table[i].message_order = order

\* The key of BNChatMessages, one row per (binary_hash, chat_id, message_order);
\* its CREATE TABLE is run by the migrations.
NativeConflicts(table, b, c, order) == Conflicts(table, b, c, order)

\* The INSERT: staged in the open transaction, or an IntegrityError, which the
\* except clause rolls back and raises as RuntimeError.
InsertRow(t) ==
    /\ pc[t] = "insert"
    /\ IF IF frame[t].op = "save_native_message"
          THEN NativeConflicts(BNChatMessages, frame[t].b, frame[t].c, frame[t].order)
          ELSE Conflicts(BNChatHistory, frame[t].b, frame[t].c, frame[t].order)
       THEN /\ frame' = [frame EXCEPT ![t].raised = TRUE]
            /\ pc' = [pc EXCEPT ![t] = "close"]
       ELSE /\ frame' = [frame EXCEPT ![t].staged = TRUE]
            /\ pc' = [pc EXCEPT ![t] = "commit"]
    /\ UNCHANGED <<BNContext, BNChatHistory, BNChatMessages, written,
                   lockOwner, lockDepth, conn>>
    /\ ConcFrame

\* The row save_chat_message inserts.
LegacyRow(b, c, order, role, content) ==
    [binary_hash |-> b, chat_id |-> c, message_order |-> order,
     role |-> role, content |-> content, metadata |-> NULL,
     created_at |-> CURRENT_TIMESTAMP]

\* The DELETE of cleanup_expired_context, staged in the open transaction.
Sweep(t) ==
    /\ pc[t] = "sweep"
    /\ frame' = [frame EXCEPT ![t].staged = TRUE]
    /\ pc' = [pc EXCEPT ![t] = "commit"]
    /\ UNCHANGED <<BNContext, BNChatHistory, BNChatMessages, written,
                   lockOwner, lockDepth, conn>>
    /\ ConcFrame

\* conn.commit(): the staged statement reaches the table.
Commit(t) ==
    /\ pc[t] = "commit"
    /\ LET f == frame[t]
       IN CASE f.op = "save_native_message" ->
                 /\ BNChatMessages' = Append(BNChatMessages,
                        NativeRow(f.b, f.c, f.order, f.m, f.provider))
                 /\ written' = [written EXCEPT ![<<f.b, f.c>>] =
                        Append(@, [provider |-> f.provider, payload |-> f.m, by |-> t,
                                   seen |-> f.seen])]
                 /\ UNCHANGED <<BNChatHistory, BNContext, frame>>
            [] f.op = "save_chat_message" ->
                 /\ BNChatHistory' = Append(BNChatHistory,
                        LegacyRow(f.b, f.c, f.order, f.role, f.content))
                 /\ UNCHANGED <<BNChatMessages, BNContext, written, frame>>
            [] OTHER ->
                 LET gone == {r \in BNContext : ContextExpired(r)}
                 IN /\ BNContext' = DeleteRows(BNContext, gone)
                    /\ frame' = [frame EXCEPT ![t].res = JNum(Cardinality(gone))]
                    /\ UNCHANGED <<BNChatMessages, BNChatHistory, written>>
    /\ pc' = [pc EXCEPT ![t] = "close"]
    /\ UNCHANGED <<lockOwner, lockDepth, conn>>
    /\ ConcFrame

\* The SELECT of get_native_messages_for_provider and the json.loads of its rows.
ReadRows(t) ==
    /\ pc[t] = "read"
    /\ frame' = [frame EXCEPT ![t].res =
                    JList(NativeMessagesForProvider(frame[t].b, frame[t].c,
                                                    frame[t].provider))]
    /\ pc' = [pc EXCEPT ![t] = "close"]
    /\ UNCHANGED <<BNContext, BNChatHistory, BNChatMessages, written,
                   lockOwner, lockDepth, conn>>
    /\ ConcFrame

\* finally: conn.close()
Close(t) ==
    /\ pc[t] = "close"
    /\ conn' = [conn EXCEPT ![t] = @ - 1]
    /\ pc' = [pc EXCEPT ![t] = "unlock"]
    /\ UNCHANGED <<BNContext, BNChatHistory, BNChatMessages, written,
                   lockOwner, lockDepth, frame>>
    /\ ConcFrame

\* The end of the with block; the call returns or raises.
Release(t) ==
    /\ pc[t] = "unlock"
    /\ lockDepth' = lockDepth - 1
    /\ lockOwner' = IF lockDepth = 1 THEN NoThread ELSE lockOwner
    /\ pc' = [pc EXCEPT ![t] = "idle"]
    /\ frame' = [frame EXCEPT ![t] = IdleFrame]
    /\ UNCHANGED <<BNContext, BNChatHistory, BNChatMessages, written, conn>>
    /\ ConcFrame

NextConc ==
    \E t \in Threads :
        \/ \E k \in ChatKeys : call_save_native_message(t, k[1], k[2], PUser, "openai")
        \/ \E k \in ChatKeys : call_save_chat_message(t, k[1], k[2], S_user, S_text)
        \/ \E k \in ChatKeys :
              call_get_native_messages_for_provider(t, k[1], k[2], "openai")
        \/ call_cleanup_database(t)
        \/ ExtConnect(t)
        \/ ExtRun(t)
        \/ ExtClose(t)
        \/ Acquire(t)
        \/ Connect(t)
        \/ SelectOrder(t)
        \/ InsertRow(t)
        \/ Sweep(t)
        \/ Commit(t)
        \/ ReadRows(t)
        \/ Close(t)
        \/ Release(t)

SpecConc == Init /\ [][NextConc]_vars

\* The message_order values a chat holds in a table.
OrdersOf(table, k) ==
    LET rows == RowsOf(table, k[1], k[2])
    IN {rows[i].message_order : i \in 1..Len(rows)}

\* C1: whatever the interleaving of the caller threads, no save_native_message
\* and no save_chat_message call fails, and the message_order values of every
\* chat are exactly 0..N-1 for its N rows, N being the number of saves that
\* committed: no gap and no duplicate.
C1_OrdersDense ==
    /\ \A t \in Threads : ~frame[t].raised
    /\ \A k \in ChatKeys :
          /\ OrdersOf(BNChatMessages, k) = 0..(Len(RowsOf(BNChatMessages, k[1], k[2])) - 1)
          /\ OrdersOf(BNChatHistory, k) = 0..(Len(RowsOf(BNChatHistory, k[1], k[2])) - 1)
          /\ Len(RowsOf(BNChatMessages, k[1], k[2])) = Len(written[k])

\* Two threads called save_native_message on one chat before either had
\* committed, and both rows are stored.
C1_Witness ==
    \E k \in ChatKeys :
        /\ Len(written[k]) = 2
        /\ written[k][1].by # written[k][2].by
        /\ written[k][1].seen = 0
        /\ written[k][2].seen = 0
        /\ OrdersOf(BNChatMessages, k) = {0, 1}

\* C10: at no time do two threads hold an open connection to the database,
\* that is, are inside the database-touching body of a public operation.
C10_MutualExclusion == Cardinality({t \in Threads : conn[t] > 0}) <= 1

-----------------------------------------------------------------------------
(* Texts (Python str) as sequences of characters *)

\* str.strip() with no argument removes these.
IsSpace(ch) == ch \in {" ", "\n", "\t", "\r"}

RECURSIVE LStrip(_)
LStrip(s) == IF Len(s) > 0 /\ IsSpace(Head(s)) THEN LStrip(Tail(s)) ELSE s

RECURSIVE RStrip(_)
RStrip(s) ==
    IF Len(s) > 0 /\ IsSpace(s[Len(s)]) THEN RStrip(SubSeq(s, 1, Len(s) - 1)) ELSE s

\* str.strip()
Strip(s) == RStrip(LStrip(s))

\* str.startswith
StartsWith(s, p) == Len(s) >= Len(p) /\ SubSeq(s, 1, Len(p)) = p

\* str.find: the index, from 0, of the first occurrence, or -1.
Find(s, sub) ==
    LET hits == {i \in 1..(Len(s) - Len(sub) + 1) : SubSeq(s, i, i + Len(sub) - 1) = sub}
    IN IF hits = {} THEN -1
       ELSE (CHOOSE i \in hits : \A j \in hits : i <= j) - 1

\* `sub in s`
Contains(s, sub) == Find(s, sub) # -1

\* s[n:]
From(s, n) == SubSeq(s, n + 1, Len(s))

\* s[:n]
UpTo(s, n) == SubSeq(s, 1, IF n < Len(s) THEN n ELSE Len(s))

-----------------------------------------------------------------------------
(* The transcript: _group_and_deduplicate_messages *)

S_system == <<"s", "y", "s", "t", "e", "m">>

\* The tie of equal trimmed lengths left to the earlier row.
ChooseFirstOnTie(msg1, msg2) ==
    IF Len(Strip(msg2.content_text)) > Len(Strip(msg1.content_text)) THEN msg2 ELSE msg1

\* _choose_better_assistant_message
ChooseBetter(msg1, msg2) ==
    LET content1 == Strip(msg1.content_text)
        content2 == Strip(msg2.content_text)
    IN IF Len(content2) > Len(content1) THEN msg2
       ELSE IF Len(content1) > Len(content2) THEN msg1
       ELSE IF msg2.message_order > msg1.message_order THEN msg2
       ELSE msg1

RECURSIVE FoldBetter(_, _)
\* for other_msg in assistant_messages[1:]: best_msg = choose(best_msg, other_msg)
FoldBetter(best_msg, others) ==
    IF Len(others) = 0 THEN best_msg
    ELSE FoldBetter(ChooseBetter(best_msg, Head(others)), Tail(others))

\* A look-ahead that collects nothing after the first row.
RunEndFirst(raw) == 1

RECURSIVE RunEnd(_)
\* The number of leading rows of role assistant: the look-ahead loop on j.
RunEnd(raw) ==
    IF Len(raw) > 0 /\ Head(raw).role = S_assistant THEN 1 + RunEnd(Tail(raw)) ELSE 0

RECURSIVE GroupAndDeduplicate(_)
\* _group_and_deduplicate_messages
GroupAndDeduplicate(raw) ==
    IF Len(raw) = 0 THEN <<>>
    ELSE LET msg == Head(raw)
         IN IF msg.role = S_user THEN <<msg>> \o GroupAndDeduplicate(Tail(raw))
            ELSE IF msg.role = S_assistant
            THEN LET j == RunEnd(raw)
                     assistant_messages == SubSeq(raw, 1, j)
                 IN <<IF Len(assistant_messages) > 1
                      THEN FoldBetter(Head(assistant_messages), Tail(assistant_messages))
                      ELSE msg>>
                    \o GroupAndDeduplicate(From(raw, j))
            ELSE <<msg>> \o GroupAndDeduplicate(Tail(raw))

-----------------------------------------------------------------------------
(* Texts the formatter builds *)

RECURSIVE Join(_, _)
\* sep.join(texts)
Join(texts, sep) ==
    IF Len(texts) = 0 THEN <<>>
    ELSE IF Len(texts) = 1 THEN texts[1]
    ELSE texts[1] \o sep \o Join(Tail(texts), sep)

RECURSIVE Remove(_, _)
\* s.replace(old, "")
Remove(s, old) ==
    LET at == Find(s, old)
    IN IF at = -1 \/ Len(old) = 0 THEN s
       ELSE UpTo(s, at) \o Remove(From(s, at + Len(old)), old)

\* s.replace(ch, "") for every character of a set.
RemoveChars(s, chars) == SelectSeq(s, LAMBDA ch : ch \notin chars)

RECURSIVE SplitOn(_, _)
\* s.split(sep)
SplitOn(s, sep) ==
    LET at == Find(s, sep)
    IN IF at = -1 THEN <<s>>
       ELSE <<UpTo(s, at)>> \o SplitOn(From(s, at + Len(sep)), sep)

RECURSIVE Words(_)
\* s.split(): the runs of characters that are not white space.
Words(s) ==
    LET t == LStrip(s)
        stops == {i \in 1..Len(t) : IsSpace(t[i])}
    IN IF Len(t) = 0 THEN <<>>
       ELSE IF stops = {} THEN <<t>>
       ELSE LET e == CHOOSE i \in stops : \A j \in stops : i <= j
            IN <<UpTo(t, e - 1)>> \o Words(From(t, e))

Digits == <<"0", "1", "2", "3", "4", "5", "6", "7", "8", "9">>

RECURSIVE NatText(_)
NatText(n) == IF n < 10 THEN <<Digits[n + 1]>> ELSE NatText(n \div 10) \o <<Digits[(n % 10) + 1]>>

\* str(n) of an int
IntText(n) == IF n < 0 THEN <<"-">> \o NatText(-n) ELSE NatText(n)

\* str(value), as an f-string formats it: texts as they are, ints in decimal,
\* True, False, None.  Lists and dicts are shown by their size only.
PyStr(v) ==
    CASE Tag(v) = "str" -> v[2]
      [] Tag(v) = "num" -> IntText(v[2])
      [] Tag(v) = "bool" -> IF v[2] THEN <<"T", "r", "u", "e">> ELSE <<"F", "a", "l", "s", "e">>
      [] Tag(v) = "null" -> <<"N", "o", "n", "e">>
      [] OTHER -> <<"[", ".", ".", ".", "]">>

-----------------------------------------------------------------------------
(* json.loads of a text held in a str: the characters are read into the     *)
(* tokens ParseValue takes.  Strings have no escapes, numbers are integers.  *)

DigitValue(ch) == (CHOOSE i \in 1..10 : Digits[i] = ch) - 1
IsDigit(ch) == \E i \in 1..10 : Digits[i] = ch

RECURSIVE DigitRun(_)
\* The number of leading digits.
DigitRun(s) == IF Len(s) > 0 /\ IsDigit(Head(s)) THEN 1 + DigitRun(Tail(s)) ELSE 0

RECURSIVE NatValue(_, _)
NatValue(s, acc) ==
    IF Len(s) = 0 THEN acc ELSE NatValue(Tail(s), 10 * acc + DigitValue(Head(s)))

ScanFail == [ok |-> FALSE, toks |-> <<>>]

RECURSIVE Scan(_, _)
\* The scanner of the decoder.
Scan(s, acc) ==
    IF Len(s) = 0 THEN [ok |-> TRUE, toks |-> acc]
    ELSE LET ch == Head(s)
         IN CASE IsSpace(ch) -> Scan(Tail(s), acc)
              [] ch \in {"{", "}", "[", "]", ":", ","} -> Scan(Tail(s), Append(acc, Punct(ch)))
              [] ch = "\"" ->
                    LET close == Find(Tail(s), <<"\"">>)
                    IN IF close = -1 \/ Contains(UpTo(Tail(s), close), <<"\\">>)
                       THEN ScanFail
                       ELSE Scan(From(Tail(s), close + 1),
                                 Append(acc, <<"s", UpTo(Tail(s), close)>>))
              [] IsDigit(ch) ->
                    LET n == DigitRun(s)
                    IN Scan(From(s, n), Append(acc, <<"n", NatValue(UpTo(s, n), 0)>>))
              [] ch = "-" /\ DigitRun(Tail(s)) > 0 ->
                    LET n == DigitRun(Tail(s))
                    IN Scan(From(s, n + 1),
                            Append(acc, <<"n", 0 - NatValue(UpTo(Tail(s), n), 0)>>))
              [] StartsWith(s, <<"t", "r", "u", "e">>) -> Scan(From(s, 4), Append(acc, Punct("true")))
              [] StartsWith(s, <<"f", "a", "l", "s", "e">>) -> Scan(From(s, 5), Append(acc, Punct("false")))
              [] StartsWith(s, <<"n", "u", "l", "l">>) -> Scan(From(s, 4), Append(acc, Punct("null")))
              [] OTHER -> ScanFail

\* json.loads(text): the value, or not ok for json.JSONDecodeError.
LoadsParsed(r) ==
    IF r.ok /\ Len(r.rest) = 0 THEN [ok |-> TRUE, val |-> r.val]
    ELSE [ok |-> FALSE, val |-> JNull]

LoadsScanned(scanned) ==
    IF scanned.ok THEN LoadsParsed(ParseValue(scanned.toks)) ELSE LoadsParsed(ParseFail)

LoadsText(s) == LoadsScanned(Scan(s, <<>>))

-----------------------------------------------------------------------------
(* The transcript: formatting a row for display *)

S_unknown == <<"u", "n", "k", "n", "o", "w", "n">>
T_ToolsMarker == <<"[", "T", "o", "o", "l", "s", ":">>
T_ToolOpen == <<"[", "T", "o", "o", "l", ":", " ">>
T_ToolsCalled == <<"[", "T", "o", "o", "l", "s", " ", "c", "a", "l", "l", "e", "d", ":", "]">>
T_MCPTools == <<"A", "v", "a", "i", "l", "a", "b", "l", "e", " ", "M", "C", "P", " ", "T", "o", "o", "l", "s">>
T_RAGContext == <<"*", "*", "R", "A", "G", " ", "C", "o", "n", "t", "e", "x", "t", "*", "*">>
T_UseTools == <<"U", "s", "e", " ", "t", "h", "e", " ", "a", "v", "a", "i", "l", "a", "b", "l", "e", " ", "t", "o", "o", "l", " ", "c", "a", "l", "l", "s", " ", "a", "s", " ", "n", "e", "e", "d", "e", "d", ".">>
T_ToolColon == <<"T", "o", "o", "l", ":">>
T_BoldToolColon == <<"*", "*", "T", "o", "o", "l", ":", "*", "*">>
T_RawArgs == <<"r", "a", "w", "_", "a", "r", "g", "s">>

\* Strings of tool arguments longer than this are cut.
ArgPreview == 30
\* Tool results longer than this are cut.
ToolPreview == 200

\* _clean_user_message_for_display
CleanUserMessage(content_text) ==
    IF Contains(content_text, T_MCPTools)
    THEN Strip(Head(SplitOn(content_text, T_MCPTools)))
    ELSE IF Contains(content_text, T_RAGContext)
    THEN Strip(Head(SplitOn(content_text, T_RAGContext)))
    ELSE IF Contains(content_text, T_UseTools)
    THEN Strip(Remove(content_text, <<"\n", "\n">> \o T_UseTools))
    ELSE Strip(content_text)

\* One `key=value` with the strings cut from ArgPreview characters on.
FormatArgCutEarly(key, value) ==
    CASE Tag(value) = "str" ->
            IF Len(value[2]) >= ArgPreview
            THEN key \o <<"=", "\"">> \o UpTo(value[2], ArgPreview) \o <<".", ".", ".", "\"">>
            ELSE key \o <<"=", "\"">> \o value[2] \o <<"\"">>
      [] Tag(value) \in {"num", "bool"} -> key \o <<"=">> \o PyStr(value)
      [] Tag(value) = "list" ->
            key \o <<"=", "[">> \o IntText(Len(value[2])) \o <<" ", "i", "t", "e", "m", "s", "]">>
      [] Tag(value) = "obj" ->
            key \o <<"=", "{">> \o IntText(Len(value[2])) \o <<" ", "k", "e", "y", "s", "}">>
      [] OTHER -> key \o <<"=">> \o PyStr(value)

\* One `key=value` of _format_args_compact.
FormatArg(key, value) ==
    CASE Tag(value) = "str" ->
            IF Len(value[2]) > ArgPreview
            THEN key \o <<"=", "\"">> \o UpTo(value[2], ArgPreview) \o <<".", ".", ".", "\"">>
            ELSE key \o <<"=", "\"">> \o value[2] \o <<"\"">>
      [] Tag(value) \in {"num", "bool"} -> key \o <<"=">> \o PyStr(value)
      [] Tag(value) = "list" ->
            key \o <<"=", "[">> \o IntText(Len(value[2])) \o <<" ", "i", "t", "e", "m", "s", "]">>
      [] Tag(value) = "obj" ->
            key \o <<"=", "{">> \o IntText(Len(value[2])) \o <<" ", "k", "e", "y", "s", "}">>
      [] OTHER -> key \o <<"=">> \o PyStr(value)

\* _format_args_compact, of a dict.
FormatArgsCompact(args) ==
    IF ~Truthy(args) THEN <<>>
    ELSE Join([i \in 1..Len(args[2]) |-> FormatArg(args[2][i][1], args[2][i][2])],
              <<",", " ">>)

\* A text, or the exception the formatter raised.
Formatted(text) == [ok |-> TRUE, text |-> text]
FormatRaised == [ok |-> FALSE, text |-> <<>>]

\* args.items() raises on a truthy value that is no dict.
ArgsRaise(args) == Truthy(args) /\ Tag(args) # "obj"

\* One line of the list of several tool calls.
NumberedTool(i, tool_name) == <<" ", " ">> \o IntText(i) \o <<".", " ">> \o tool_name

ToolLineWith(numbered, args_str) ==
    IF Len(args_str) > 0 THEN numbered \o <<"(">> \o args_str \o <<")">> ELSE numbered

\* A line of the list that has the same number whatever its place.
ToolLineUnnumbered(i, tool) ==
    ToolLineWith(NumberedTool(1, PyStr(tool.name)),
                 IF Truthy(tool.args) THEN FormatArgsCompact(tool.args) ELSE <<>>)

ToolLine(i, tool) ==
    ToolLineWith(NumberedTool(i, PyStr(tool.name)),
                 IF Truthy(tool.args) THEN FormatArgsCompact(tool.args) ELSE <<>>)

\* The text for a single tool call.
OneTool(tool_name, args) ==
    IF ~Truthy(args) THEN Formatted(T_ToolOpen \o tool_name \o <<"]">>)
    ELSE Formatted(T_ToolOpen \o tool_name \o <<"(">>
                   \o FormatArgsCompact(args) \o <<")", "]">>)

\* _format_tool_calls_with_params
FormatToolCallsWithParams(details) ==
    IF Len(details) = 0 THEN Formatted(<<>>)
    ELSE IF \E i \in 1..Len(details) : ArgsRaise(details[i].args) THEN FormatRaised
    ELSE IF Len(details) = 1
    THEN OneTool(PyStr(details[1].name), details[1].args)
    ELSE Formatted(Join(<<T_ToolsCalled>> \o [i \in 1..Len(details) |-> ToolLine(i, details[i])],
                        <<"\n">>))

\* isinstance(tool_args, str): json.loads, or {'raw_args': tool_args}.
ArgsOrRaw(tool_args, r) ==
    IF r.ok THEN r.val ELSE JObj(<< <<T_RawArgs, tool_args>> >>)

ParsedArgs(tool_args) ==
    IF Tag(tool_args) # "str" THEN tool_args
    ELSE ArgsOrRaw(tool_args, LoadsText(tool_args[2]))

NoDetail == [ok |-> TRUE, keep |-> FALSE, name |-> JNull, args |-> JNull]
DetailRaised == [ok |-> FALSE, keep |-> FALSE, name |-> JNull, args |-> JNull]
Detail(name, args) ==
    [ok |-> TRUE, keep |-> name # JStr(S_unknown), name |-> name, args |-> args]

\* A tool_use block of an Anthropic content list.
BlockDetail(block) ==
    IF Tag(block) = "obj" /\ Field(block, "type", JNull) = JStr(S_tool_use)
    THEN Detail(Field(block, "name", JStr(S_unknown)), Field(block, "input", JObj(<<>>)))
    ELSE NoDetail

\* tc['function'].get(...): the function entry has to be a dict.
FunctionDetail(tc) ==
    LET fn == Field(tc, "function", JNull)
    IN IF Tag(fn) # "obj" THEN DetailRaised
       ELSE Detail(Field(fn, "name", JStr(S_unknown)),
                   ParsedArgs(Field(fn, "arguments", JObj(<<>>))))

\* An entry of an OpenAI tool_calls list.
OpenAIDetail(tc) ==
    IF Tag(tc) = "obj" /\ HasField(tc, "function") THEN FunctionDetail(tc) ELSE NoDetail

\* An entry of an Ollama tool_calls list: the OpenAI form or the direct form.
OllamaDetail(tc) ==
    IF Tag(tc) # "obj" THEN NoDetail
    ELSE IF HasField(tc, "function") THEN FunctionDetail(tc)
    ELSE IF HasField(tc, "name")
    THEN Detail(Field(tc, "name", JStr(S_unknown)),
                ParsedArgs(Field(tc, "arguments", Field(tc, "parameters", JObj(<<>>)))))
    ELSE NoDetail

\* What `for x in value` goes through: the items of a list; the characters of
\* a str and the keys of a dict, none of them a dict; anything else raises.
Iterable(v) == Tag(v) \in {"list", "str", "obj"}
Items(v) == IF Tag(v) = "list" THEN v[2] ELSE <<>>

\* has_tool_calls and tool_calls_details of a payload.
ToolCalls(ok, has, details) == [ok |-> ok, has |-> has, details |-> details]

Kept(found) ==
    LET kept == SelectSeq(found, LAMBDA d : d.keep)
    IN [i \in 1..Len(kept) |-> [name |-> kept[i].name, args |-> kept[i].args]]

BlocksToolCalls(blocks) ==
    ToolCalls(TRUE,
              \E i \in 1..Len(blocks) :
                  Tag(blocks[i]) = "obj"
                      /\ Field(blocks[i], "type", JNull) = JStr(S_tool_use),
              Kept([i \in 1..Len(blocks) |-> BlockDetail(blocks[i])]))

AnthropicToolCalls(content) ==
    IF ~Iterable(content) THEN ToolCalls(FALSE, FALSE, <<>>)
    ELSE BlocksToolCalls(Items(content))

\* The loop over tool_calls ends at the first entry that raises.
FoundToolCalls(found) ==
    ToolCalls(\A i \in 1..Len(found) : found[i].ok, TRUE, Kept(found))

OpenAIDetails(tcs) == [i \in 1..Len(tcs) |-> OpenAIDetail(tcs[i])]
OllamaDetails(tcs) == [i \in 1..Len(tcs) |-> OllamaDetail(tcs[i])]

OpenAIToolCalls(tool_calls) ==
    IF ~Truthy(tool_calls) THEN ToolCalls(TRUE, FALSE, <<>>)
    ELSE IF ~Iterable(tool_calls) THEN ToolCalls(FALSE, TRUE, <<>>)
    ELSE FoundToolCalls(OpenAIDetails(Items(tool_calls)))

OllamaToolCalls(tool_calls) ==
    IF ~Iterable(tool_calls) THEN ToolCalls(FALSE, TRUE, <<>>)
    ELSE FoundToolCalls(OllamaDetails(Items(tool_calls)))

\* The Ollama branch with the list under 'message' looked at first.
OllamaCallsNestedFirst(native_data, message_data) ==
    IF Tag(message_data) = "obj"
            /\ HasField(message_data, "tool_calls")
            /\ Truthy(Field(message_data, "tool_calls", JNull))
    THEN OllamaToolCalls(Field(message_data, "tool_calls", JNull))
    ELSE IF HasField(native_data, "tool_calls") /\ Truthy(Field(native_data, "tool_calls", JNull))
    THEN OllamaToolCalls(Field(native_data, "tool_calls", JNull))
    ELSE ToolCalls(TRUE, FALSE, <<>>)

\* The Ollama branch: tool_calls at the top of the payload or under 'message'.
OllamaCalls(native_data, message_data) ==
    IF HasField(native_data, "tool_calls") /\ Truthy(Field(native_data, "tool_calls", JNull))
    THEN OllamaToolCalls(Field(native_data, "tool_calls", JNull))
    ELSE IF Tag(message_data) = "obj"
            /\ HasField(message_data, "tool_calls")
            /\ Truthy(Field(message_data, "tool_calls", JNull))
    THEN OllamaToolCalls(Field(message_data, "tool_calls", JNull))
    ELSE ToolCalls(TRUE, FALSE, <<>>)

\* The provider branches of _format_assistant_message_for_display.
ToolCallsOf(native_data, provider_type) ==
    IF provider_type = "anthropic" /\ HasField(native_data, "content")
    THEN AnthropicToolCalls(Field(native_data, "content", JNull))
    ELSE IF provider_type = "openai" /\ HasField(native_data, "tool_calls")
    THEN OpenAIToolCalls(Field(native_data, "tool_calls", JNull))
    ELSE IF provider_type = "ollama"
    THEN OllamaCalls(native_data, Field(native_data, "message", JNull))
    ELSE ToolCalls(TRUE, FALSE, <<>>)

RECURSIVE DropNewlines(_)
\* while clean_content.startswith('\n'): clean_content = clean_content[1:]
DropNewlines(s) == IF Len(s) > 0 /\ Head(s) = "\n" THEN DropNewlines(Tail(s)) ELSE s

\* The content without a leading '[Tools:...]' indicator.
CleanContent(content_text) ==
    LET clean_content == Strip(content_text)
    IN IF StartsWith(clean_content, T_ToolsMarker) /\ Contains(clean_content, <<"]">>)
       THEN DropNewlines(Strip(From(clean_content, Find(clean_content, <<"]">>) + 1)))
       ELSE clean_content

\* _format_assistant_message_for_display
\* The output: the tool indicator, then the cleaned content.
AssistantText(calls, clean_content, tool_details_text) ==
    IF ~calls.ok THEN FormatRaised
    ELSE IF calls.has /\ Len(calls.details) > 0
    THEN IF ~tool_details_text.ok THEN FormatRaised
         ELSE IF Len(clean_content) > 0
         THEN Formatted(tool_details_text.text \o <<"\n", "\n">> \o clean_content)
         ELSE tool_details_text
    ELSE Formatted(clean_content)

FormatCalls(calls, clean_content) ==
    AssistantText(calls, clean_content, FormatToolCallsWithParams(calls.details))

FormatAssistant(content_text, native_data, provider_type) ==
    FormatCalls(ToolCallsOf(native_data, provider_type), CleanContent(content_text))

\* The character U+0060, which a TLA+ string cannot hold.
Backtick == "grave"

T_Tool == <<"T", "o", "o", "l">>
T_Truncated == <<".", ".", ".", "\n", "\n", "[", "T", "o", "o", "l", " ", "r", "e", "s", "u", "l", "t", " ", "t", "r", "u", "n", "c", "a", "t", "e", "d", " ", "f", "o", "r", " ", "d", "i", "s", "p", "l", "a", "y", "]">>

\* The tool name a line 'Tool: name ...' of the content carries.
MarkedLine(line) == StartsWith(line, T_ToolColon) \/ StartsWith(line, T_BoldToolColon)

MarkedLines(lines) == {i \in 1..Len(lines) : MarkedLine(Strip(lines[i]))}

FirstOf(marked) == CHOOSE i \in marked : \A j \in marked : i <= j

NameOfParts(parts) ==
    IF Len(parts) >= 2 THEN RemoveChars(parts[2], {Backtick, "*"}) ELSE T_Tool

NameInLines(lines, marked) ==
    IF marked = {} THEN T_Tool ELSE NameOfParts(Words(lines[FirstOf(marked)]))

NameOfLines(lines) == NameInLines(lines, MarkedLines(lines))

\* The content never looked at for a name.
NoNameInContent(clean_content) == T_Tool

ToolNameInContent(clean_content) == NameOfLines(SplitOn(clean_content, <<"\n">>))

\* _format_tool_message_for_display
ToolResult(clean_content, native_data) ==
    LET tool_name ==
            IF Truthy(native_data) /\ HasField(native_data, "name")
            THEN PyStr(Field(native_data, "name", JNull))
            ELSE IF Contains(clean_content, T_ToolColon)
            THEN ToolNameInContent(clean_content)
            ELSE T_Tool
        shown == IF Len(clean_content) > ToolPreview
                 THEN UpTo(clean_content, ToolPreview) \o T_Truncated
                 ELSE clean_content
    IN <<"*", "*">> \o tool_name
       \o <<" ", "R", "e", "s", "u", "l", "t", ":", "*", "*", "\n">>
       \o <<Backtick, Backtick, Backtick, "\n">> \o shown
       \o <<"\n", Backtick, Backtick, Backtick>>

FormatTool(content_text, native_data) ==
    IF Len(Strip(content_text)) = 0 THEN <<>>
    ELSE ToolResult(Strip(content_text), native_data)

\* except Exception: return content_text
TextOr(r, content_text) == IF r.ok THEN r.text ELSE content_text

\* _format_message_for_display: an exception of a formatter is logged and the
\* content returned as it is.
FormatMessage(role, content_text, message_type, provider_type, native_data) ==
    IF role = S_user THEN CleanUserMessage(content_text)
    ELSE IF role = S_assistant
    THEN TextOr(FormatAssistant(content_text, native_data, provider_type), content_text)
    ELSE IF role = S_tool THEN FormatTool(content_text, native_data)
    ELSE content_text

\* The dict get_display_messages builds from a row (its id apart).
RawMessage(r) ==
    [message_order |-> r.message_order, role |-> r.role,
     content_text |-> r.content_text, message_type |-> r.message_type,
     provider_type |-> r.provider_type, created_at |-> r.created_at,
     native_data |-> IF Len(r.native_message_data) > 0
                     THEN Loads(r.native_message_data) ELSE JObj(<<>>)]

\* raw_messages without the test on the role system.
RawMessagesWithSystem(b, c) ==
    LET rows == OrderRows(RowsOf(BNChatMessages, b, c))
    IN [i \in 1..Len(rows) |-> RawMessage(rows[i])]

\* raw_messages: the rows of the chat by message_order, those of role system
\* skipped.
RawMessages(b, c) ==
    LET rows == SelectSeq(OrderRows(RowsOf(BNChatMessages, b, c)),
                          LAMBDA r : r.role # S_system)
    IN [i \in 1..Len(rows) |-> RawMessage(rows[i])]

FormattedContent(msg) ==
    FormatMessage(msg.role, msg.content_text, msg.message_type,
                  msg.provider_type, msg.native_data)

DisplayDict(msg, formatted_content) ==
    JObj(<< <<"message_order", JNum(msg.message_order)>>,
            <<"role", JStr(msg.role)>>,
            <<"content", JStr(formatted_content)>>,
            <<"message_type", JStr(msg.message_type)>>,
            <<"provider_type", JStr(msg.provider_type)>>,
            <<"created_at", JStr(msg.created_at)>> >>)

\* formatted_content of each message of the list.
FormattedContents(grouped_messages) ==
    [i \in 1..Len(grouped_messages) |-> FormattedContent(grouped_messages[i])]

\* display_messages.append(...) without the test of formatted_content.
AllDicts(grouped_messages, contents) ==
    [k \in 1..Len(contents) |-> DisplayDict(grouped_messages[k], contents[k])]

\* if formatted_content: display_messages.append(...)
DictsOf(grouped_messages, contents) ==
    LET shown == SelectSeq([i \in 1..Len(contents) |-> i],
                           LAMBDA i : Len(contents[i]) > 0)
    IN [k \in 1..Len(shown) |-> DisplayDict(grouped_messages[shown[k]], contents[shown[k]])]

DisplayDicts(grouped_messages) ==
    DictsOf(grouped_messages, FormattedContents(grouped_messages))

\* display_messages
DisplayMessages(b, c) == DisplayDicts(GroupAndDeduplicate(RawMessages(b, c)))

\* A read that writes what it rendered back into content_text.
StoringRendered(table, b, c) ==
    [i \in 1..Len(table) |->
        IF ChatKeyOf(table[i]) = <<b, c>>
        THEN [table[i] EXCEPT !.content_text = FormattedContent(RawMessage(table[i]))]
        ELSE table[i]]

\* BNChatMessages after get_display_messages: a SELECT, and no other statement.
AfterDisplay(table, b, c) == table

get_display_messages(b, c) ==
    /\ last' = Ret("get_display_messages", <<b, c>>, JList(DisplayMessages(b, c)))
    /\ BNChatMessages' = AfterDisplay(BNChatMessages, b, c)
    /\ UNCHANGED <<clock, tz, BNAnalysis, BNContext, BNChatHistory,
                   SystemPrompts, latest, written, cached>>
    /\ SeqStores

-----------------------------------------------------------------------------
(* The transcript of one chat *)

DisplayChat == <<"h1", "c1">>

PSystem == JObj(<< <<"role", JStr(S_system)>>, <<"content", JStr(<<"s">>)>> >>)
PAssistantOk == JObj(<< <<"role", JStr(S_assistant)>>, <<"content", JStr(<<"o", "k">>)>> >>)
PAssistantPadded ==
    JObj(<< <<"role", JStr(S_assistant)>>, <<"content", JStr(<<" ", "n", "o", " ">>)>> >>)
POpenAIArgs ==
    JObj(<< <<"role", JStr(S_assistant)>>, <<"content", JStr(<<"s", "e", "e">>)>>,
            <<"tool_calls", JList(<< JObj(<< <<"function",
                JObj(<< <<"name", JStr(<<"g">>)>>,
                        <<"arguments", JStr(<<"{", "\"", "q", "\"", ":", " ", "\"", "x", "\"", "}">>)>> >>)>> >>) >>)>> >>)
PToolResult ==
    JObj(<< <<"role", JStr(S_tool)>>, <<"content", JStr(<<"r">>)>>,
            <<"name", JStr(<<"f">>)>> >>)

\* The (native_message, provider_type) arguments the transcript is built from.
DisplayInputs ==
    { <<PUser, "openai">>, <<PSystem, "openai">>, <<PAssistantOk, "openai">>,
      <<PAssistantPadded, "openai">>, <<POpenAITool, "openai">>,
      <<POpenAIArgs, "openai">>, <<PAnthropicTool, "anthropic">>,
      <<PToolResult, "openai">> }

NextDisplay ==
    \/ \E in \in DisplayInputs :
          save_native_message(DisplayChat[1], DisplayChat[2], in[1], in[2])
    \/ get_display_messages(DisplayChat[1], DisplayChat[2])

SpecDisplay == Init /\ [][NextDisplay]_vars

IsAssistant(msg) == msg.role = S_assistant

\* The indices at which a maximal run of assistant rows starts, and the
\* indices of the run that starts at i.
RunStarts(raw) ==
    {i \in 1..Len(raw) : IsAssistant(raw[i]) /\ (i = 1 \/ ~IsAssistant(raw[i - 1]))}
RunAt(raw, i) == {j \in i..Len(raw) : \A k \in i..j : IsAssistant(raw[k])}

\* The two inputs the grouping is examined on: the rows of the chat as
\* get_display_messages passes them, and the same with the system rows left in.
GroupingInputs ==
    {RawMessages(DisplayChat[1], DisplayChat[2]),
     RawMessagesWithSystem(DisplayChat[1], DisplayChat[2])}

\* C11: the result of _group_and_deduplicate_messages is a sub-sequence of its
\* input; the rows that are not assistant rows are all there, unchanged and in
\* their order; of every maximal run of consecutive assistant rows exactly one
\* row is there; no two adjacent rows of the result are assistant rows.
C11_OnePerAssistantRun ==
    \A raw \in GroupingInputs :
        LET out == GroupAndDeduplicate(raw)
        IN /\ \A p \in 1..Len(out) : \E j \in 1..Len(raw) : out[p] = raw[j]
           /\ \A p \in 1..Len(out) : \A q \in 1..Len(out) :
                 p < q => out[p].message_order < out[q].message_order
           /\ SelectSeq(out, LAMBDA m : ~IsAssistant(m))
                 = SelectSeq(raw, LAMBDA m : ~IsAssistant(m))
           /\ \A i \in RunStarts(raw) :
                 Cardinality({p \in 1..Len(out) : \E j \in RunAt(raw, i) : out[p] = raw[j]}) = 1
           /\ Cardinality({p \in 1..Len(out) : IsAssistant(out[p])})
                 = Cardinality(RunStarts(raw))
           /\ \A p \in 1..(Len(out) - 1) : ~(IsAssistant(out[p]) /\ IsAssistant(out[p + 1]))

\* A user row followed by two assistant rows was displayed as two rows.
C11_Witness ==
    LET raw == RawMessages(DisplayChat[1], DisplayChat[2])
    IN /\ last.op = "get_display_messages"
       /\ Len(raw) = 3
       /\ raw[1].role = S_user /\ IsAssistant(raw[2]) /\ IsAssistant(raw[3])
       /\ Len(last.res[2]) = 2

TrimmedLen(msg) == Len(Strip(msg.content_text))

\* C12: of every run of consecutive assistant rows the fold of
\* _choose_better_assistant_message keeps a row of the run of the greatest
\* trimmed content_text length, and among the rows of that length the one of
\* the highest message_order; a row of empty content never wins over a row of
\* the run that has content.
C12_LongestThenLatest ==
    \A raw \in GroupingInputs :
        \A i \in RunStarts(raw) :
            LET run == RunAt(raw, i)
                e == CHOOSE j \in run : \A k \in run : k <= j
                best == FoldBetter(raw[i], SubSeq(raw, i + 1, e))
            IN /\ \E j \in run : best = raw[j]
               /\ \A j \in run :
                     /\ TrimmedLen(raw[j]) <= TrimmedLen(best)
                     /\ TrimmedLen(raw[j]) = TrimmedLen(best)
                           => raw[j].message_order <= best.message_order
               /\ (\E j \in run : TrimmedLen(raw[j]) > 0) => TrimmedLen(best) > 0

\* A run of three assistant rows, the one with content between two tool-only
\* rows, was displayed as the row with content.
C12_Witness ==
    LET raw == RawMessages(DisplayChat[1], DisplayChat[2])
    IN /\ last.op = "get_display_messages"
       /\ Len(raw) = 3
       /\ \A i \in 1..3 : IsAssistant(raw[i])
       /\ TrimmedLen(raw[1]) = 0 /\ TrimmedLen(raw[2]) > 0 /\ TrimmedLen(raw[3]) = 0
       /\ Len(last.res[2]) = 1
       /\ Field(last.res[2][1], "message_order", JNull) = JNum(raw[2].message_order)

\* The message_order values of the rows get_display_messages returns.
ShownOrders(b, c) ==
    LET shown == DisplayMessages(b, c)
    IN {Field(shown[p], "message_order", JNull)[2] : p \in 1..Len(shown)}

\* C13: get_display_messages returns no row of role system, and of two
\* assistant rows of the chat with nothing but system rows between them it
\* returns at most one.
C13_NoSystemRows ==
    LET shown == DisplayMessages(DisplayChat[1], DisplayChat[2])
        all == RawMessagesWithSystem(DisplayChat[1], DisplayChat[2])
        orders == ShownOrders(DisplayChat[1], DisplayChat[2])
    IN /\ \A p \in 1..Len(shown) : Field(shown[p], "role", JNull) # JStr(S_system)
       /\ last.op = "get_display_messages" =>
             \A p \in 1..Len(last.res[2]) :
                 Field(last.res[2][p], "role", JNull) # JStr(S_system)
       /\ \A i \in 1..Len(all) : \A j \in 1..Len(all) :
             (/\ i < j
              /\ IsAssistant(all[i]) /\ IsAssistant(all[j])
              /\ \A k \in (i + 1)..(j - 1) : all[k].role = S_system)
             => ~(all[i].message_order \in orders /\ all[j].message_order \in orders)

\* An assistant row, a system row and an assistant row were displayed as one row.
C13_Witness ==
    LET all == RawMessagesWithSystem(DisplayChat[1], DisplayChat[2])
    IN /\ last.op = "get_display_messages"
       /\ Len(all) = 3
       /\ IsAssistant(all[1]) /\ all[2].role = S_system /\ IsAssistant(all[3])
       /\ Len(last.res[2]) = 1

\* C14: get_display_messages writes nothing, and a second call with no write
\* between the two returns the list the first returned.
C14_DisplayTwiceSame ==
    [][/\ last'.op = "get_display_messages" => BNChatMessages' = BNChatMessages
       /\ (last.op = "get_display_messages" /\ last'.op = "get_display_messages")
             => last'.res = last.res]_vars

\* The transcript of three rows, one of them with a tool call, was read twice.
C14_Witness ==
    /\ last.op = "get_display_messages"
    /\ last.again
    /\ Len(last.res[2]) = 3
    /\ \E i \in 1..Len(BNChatMessages) : BNChatMessages[i].message_type = "mixed"

\* C15: an assistant row whose payload carries tool calls, rendered, and the
\* rendering taken as content_text and rendered again, gives the first
\* rendering: the block of tool calls is there once.
C15_RerenderSame ==
    \A i \in 1..Len(BNChatMessages) :
        LET msg == RawMessage(BNChatMessages[i])
            calls == ToolCallsOf(msg.native_data, msg.provider_type)
            first == FormatAssistant(msg.content_text, msg.native_data, msg.provider_type)
        IN (IsAssistant(msg) /\ calls.ok /\ calls.has /\ Len(calls.details) > 0 /\ first.ok)
           => FormatAssistant(first.text, msg.native_data, msg.provider_type) = first

-----------------------------------------------------------------------------
(* SettingsService: the llm_providers table and the settings it mirrors.    *)
(* The created_at and updated_at columns are left out.                       *)

MaxProviderIds == 3
ProviderNames == {"A", "B"}
\* A name no add is ever made with.
AbsentName == "Z"
Models == {"m1", "m2"}
DefaultMaxTokens == 4096

\* raise ValueError(f"Provider '{name}' already exists")
AlreadyExists == <<"raise", "ValueError", "already exists">>

\* raise RuntimeError(f"Failed to ...: {e}")
StoreError(what) == <<"raise", "RuntimeError", what>>

\* A table whose name column has no UNIQUE constraint.
NameNeverTaken(table, name, but) == FALSE

\* name TEXT UNIQUE NOT NULL: a row other than `but` has the name.
NameTaken(table, name, but) ==
    \E i \in 1..Len(table) : table[i].name = name /\ table[i].id # but

\* The row the INSERT of add_llm_provider writes, the defaults of the columns
\* and of the parameters filled in.
ProviderRow(id, name, model) ==
    [id |-> id, name |-> name, model |-> model, url |-> "u",
     max_tokens |-> DefaultMaxTokens, api_key |-> "", disable_tls |-> FALSE,
     provider_type |-> "openai", is_active |-> FALSE]

add_llm_provider(name, model) ==
    /\ llm_seq < MaxProviderIds
    /\ IF NameTaken(llm_providers, name, 0)
       THEN /\ last' = Ret("add_llm_provider", <<name>>, AlreadyExists)
            /\ UNCHANGED <<llm_providers, llm_seq>>
       ELSE /\ llm_providers' = Append(llm_providers, ProviderRow(llm_seq + 1, name, model))
            /\ llm_seq' = llm_seq + 1
            /\ last' = Ret("add_llm_provider", <<name>>, JNum(llm_seq + 1))
    /\ UNCHANGED <<clock, tz, BNAnalysis, BNContext, BNChatHistory, BNChatMessages,
                   SystemPrompts, latest, written, cached, settings>>
    /\ SeqThreads

\* The keyword arguments of update_llm_provider, as (field, value) pairs.
ValidFields ==
    {"name", "model", "url", "max_tokens", "api_key", "disable_tls",
     "provider_type", "is_active"}
UpdateArgs ==
    { <<>>, << <<"colour", "red">> >>,
      << <<"name", "A">> >>, << <<"name", "B">> >>,
      << <<"is_active", TRUE>> >>, << <<"is_active", FALSE>> >>,
      << <<"model", "m2">>, <<"is_active", TRUE>> >> }

RECURSIVE SetFields(_, _)
\* UPDATE llm_providers SET field = ?, ... of one row.
SetFields(row, fields) ==
    IF Len(fields) = 0 THEN row
    ELSE SetFields([row EXCEPT ![Head(fields)[1]] = Head(fields)[2]], Tail(fields))

update_llm_provider(provider_id, kwargs) ==
    LET update_fields == SelectSeq(kwargs, LAMBDA kv : kv[1] \in ValidFields)
        hit == \E i \in 1..Len(llm_providers) : llm_providers[i].id = provider_id
        names == {update_fields[i][2] :
                    i \in {j \in 1..Len(update_fields) : update_fields[j][1] = "name"}}
        clash == hit /\ \E n \in names : NameTaken(llm_providers, n, provider_id)
    IN /\ IF Len(update_fields) = 0
          THEN /\ last' = Ret("update_llm_provider", <<provider_id>>, JBool(FALSE))
               /\ UNCHANGED llm_providers
          ELSE IF clash
          THEN /\ last' = Ret("update_llm_provider", <<provider_id>>,
                              StoreError("Failed to update LLM provider"))
               /\ UNCHANGED llm_providers
          ELSE /\ llm_providers' =
                     [i \in 1..Len(llm_providers) |->
                         IF llm_providers[i].id = provider_id
                         THEN SetFields(llm_providers[i], update_fields)
                         ELSE llm_providers[i]]
               /\ last' = Ret("update_llm_provider", <<provider_id>>, JBool(hit))
       /\ UNCHANGED <<clock, tz, BNAnalysis, BNContext, BNChatHistory, BNChatMessages,
                      SystemPrompts, latest, written, cached, settings, llm_seq>>
       /\ SeqThreads

delete_llm_provider(provider_id) ==
    LET kept == SelectSeq(llm_providers, LAMBDA r : r.id # provider_id)
    IN /\ llm_providers' = kept
       /\ last' = Ret("delete_llm_provider", <<provider_id>>,
                      JBool(Len(llm_providers) - Len(kept) > 0))
       /\ UNCHANGED <<clock, tz, BNAnalysis, BNContext, BNChatHistory, BNChatMessages,
                      SystemPrompts, latest, written, cached, settings, llm_seq>>
       /\ SeqThreads

\* UPDATE llm_providers SET is_active = 0
DeactivateProviders(table) ==
    [i \in 1..Len(table) |-> [table[i] EXCEPT !.is_active = FALSE]]

\* An UPDATE that matches no row.
NoProviderActivated(table, name) == table

\* UPDATE llm_providers SET is_active = 1 WHERE name = ?
ActivateProvider(table, name) ==
    [i \in 1..Len(table) |->
        IF table[i].name = name THEN [table[i] EXCEPT !.is_active = TRUE] ELSE table[i]]

\* INSERT OR REPLACE INTO settings, key being the PRIMARY KEY; the value as
\* _serialize_value gives it for a str.
PutSetting(table, key, value, category) ==
    {r \in table : r.key # key}
        \cup {[key |-> key, value |-> value, type |-> "string", category |-> category]}

set_active_llm_provider(provider_name) ==
    /\ llm_providers' = ActivateProvider(DeactivateProviders(llm_providers), provider_name)
    /\ settings' = PutSetting(settings, "active_llm_provider", provider_name, "ui")
    /\ last' = Ret("set_active_llm_provider", <<provider_name>>, JBool(TRUE))
    /\ UNCHANGED <<clock, tz, BNAnalysis, BNContext, BNChatHistory, BNChatMessages,
                   SystemPrompts, latest, written, cached, llm_seq>>
    /\ SeqThreads

\* The dict get_active_llm_provider returns for a row.
ProviderDict(r) ==
    JObj(<< <<"id", JNum(r.id)>>, <<"name", JStr(r.name)>>, <<"model", JStr(r.model)>>,
            <<"url", JStr(r.url)>>, <<"max_tokens", JNum(r.max_tokens)>>,
            <<"api_key", JStr(r.api_key)>>, <<"disable_tls", JBool(r.disable_tls)>>,
            <<"provider_type", JStr(r.provider_type)>> >>)

\* The rows of a table, a sequence, that a predicate on the row picks.
RowSet(table) == {table[i] : i \in 1..Len(table)}

\* get_active_llm_provider: the active row, any one if there are several
\* (LIMIT 1 with no ORDER BY); else the row the saved setting names, its flag
\* set and committed; else None.
get_active_llm_provider ==
    LET active == {r \in RowSet(llm_providers) : r.is_active}
        saved == {r \in settings : r.key = "active_llm_provider"}
        named == {r \in RowSet(llm_providers) : \E st \in saved : r.name = st.value}
    IN /\ IF active # {}
          THEN /\ \E r \in active :
                     last' = Ret("get_active_llm_provider", NoKey, ProviderDict(r))
               /\ UNCHANGED llm_providers
          ELSE IF named # {}
          THEN /\ \E r \in named :
                     /\ llm_providers' = ActivateProvider(llm_providers, r.name)
                     /\ last' = Ret("get_active_llm_provider", NoKey, ProviderDict(r))
          ELSE /\ last' = Ret("get_active_llm_provider", NoKey, JNull)
               /\ UNCHANGED llm_providers
       /\ UNCHANGED <<clock, tz, BNAnalysis, BNContext, BNChatHistory, BNChatMessages,
                      SystemPrompts, latest, written, cached, settings, llm_seq>>
       /\ SeqThreads

NextSettings ==
    \/ \E name \in ProviderNames, model \in Models : add_llm_provider(name, model)
    \/ \E id \in 1..MaxProviderIds, kwargs \in UpdateArgs : update_llm_provider(id, kwargs)
    \/ \E id \in 1..MaxProviderIds : delete_llm_provider(id)
    \/ \E name \in ProviderNames \cup {AbsentName} : set_active_llm_provider(name)
    \/ get_active_llm_provider

SpecSettings == Init /\ [][NextSettings]_vars

NamesOf(table) == {table[i].name : i \in 1..Len(table)}

\* C16: no two rows of llm_providers have one name, and an add_llm_provider
\* with a name that a row has fails with the already-exists error and leaves
\* the table, the flags is_active included, as it was.
C16_DuplicateAddRejected ==
    /\ [](Cardinality(NamesOf(llm_providers)) = Len(llm_providers))
    /\ [][(last'.op = "add_llm_provider" /\ last'.key[1] \in NamesOf(llm_providers))
            => (/\ last'.res = AlreadyExists
                /\ llm_providers' = llm_providers
                /\ llm_seq' = llm_seq)]_vars

\* The add of a name that the active provider has was refused.
C16_Witness ==
    /\ last.op = "add_llm_provider"
    /\ last.res = AlreadyExists
    /\ \E i \in 1..Len(llm_providers) :
          llm_providers[i].name = last.key[1] /\ llm_providers[i].is_active
    /\ Len(llm_providers) = 2

\* C17: set_active_llm_provider with a name no row has changes no is_active
\* flag and returns False.
C17_UnknownNameChangesNothing ==
    [][(last'.op = "set_active_llm_provider" /\ last'.key[1] \notin NamesOf(llm_providers))
         => (/\ llm_providers' = llm_providers
             /\ last'.res = JBool(FALSE))]_vars

-----------------------------------------------------------------------------
\* C18: a save_native_message that raises ValueError, as it does for a
\* provider_type outside the closed set, inserts no row, leaves the next
\* message_order of every chat as it was and takes neither the lock nor a
\* connection; no stored row carries a tag outside the closed set.
C18_UnknownProviderRejected ==
    /\ [](\A i \in 1..Len(BNChatMessages) :
              BNChatMessages[i].provider_type \in ProviderTypes)
    /\ [][(last'.op = "save_native_message" /\ last'.res = Raise("ValueError"))
            => (/\ BNChatMessages' = BNChatMessages
                /\ \A k \in ChatKeys :
                      NextOrder(BNChatMessages', k[1], k[2])
                          = NextOrder(BNChatMessages, k[1], k[2])
                /\ UNCHANGED <<lockOwner, lockDepth, conn>>)]_vars

\* A save with an unknown tag was refused on a chat that has a row.
C18_Witness ==
    /\ last.op = "save_native_message"
    /\ last.res = Raise("ValueError")
    /\ Len(RowsOf(BNChatMessages, last.key[1], last.key[2])) = 1

-----------------------------------------------------------------------------
(* Calls in which a statement fails: the except clause of the operation      *)
(* runs, conn.rollback() and raise RuntimeError naming the operation.        *)

\* conn.rollback(): the table as it was before the statements of the call.
Rollback(before, working) == before

\* The statements of set_active_system_prompt, the commit last.
ActivateStatements == 1..3

\* The table in the open transaction when statement `at` fails.
PromptsBeforeFailure(version, at) ==
    IF at = 1 THEN SystemPrompts
    ELSE IF at = 2 THEN DeactivateAll(SystemPrompts)
    ELSE ActivateVersion(DeactivateAll(SystemPrompts), version)

failing_set_active_system_prompt(version, at) ==
    /\ SystemPrompts' = Rollback(SystemPrompts, PromptsBeforeFailure(version, at))
    /\ last' = Ret("set_active_system_prompt", <<version>>,
                   StoreError("Failed to set active system prompt"))
    /\ UNCHANGED <<clock, tz, BNAnalysis, BNContext, BNChatHistory, BNChatMessages,
                   latest, written, cached>>
    /\ SeqStores

\* The statements of set_active_llm_provider: two UPDATEs, the INSERT OR
\* REPLACE of the setting, the commit.
ProviderStatements == 1..4

ProvidersBeforeFailure(provider_name, at) ==
    IF at = 1 THEN llm_providers
    ELSE IF at = 2 THEN DeactivateProviders(llm_providers)
    ELSE ActivateProvider(DeactivateProviders(llm_providers), provider_name)

SettingsBeforeFailure(provider_name, at) ==
    IF at = 4 THEN PutSetting(settings, "active_llm_provider", provider_name, "ui")
    ELSE settings

failing_set_active_llm_provider(provider_name, at) ==
    /\ llm_providers' = Rollback(llm_providers, ProvidersBeforeFailure(provider_name, at))
    /\ settings' = Rollback(settings, SettingsBeforeFailure(provider_name, at))
    /\ last' = Ret("set_active_llm_provider", <<provider_name>>,
                   StoreError("Failed to set active LLM provider"))
    /\ UNCHANGED <<clock, tz, BNAnalysis, BNContext, BNChatHistory, BNChatMessages,
                   SystemPrompts, latest, written, cached, llm_seq>>
    /\ SeqThreads

\* The statements of save_native_message: the SELECT, the INSERT, the commit.
SaveStatements == 1..3

MessagesBeforeFailure(b, c, m, provider, at) ==
    IF at = 3
    THEN Append(BNChatMessages, NativeRow(b, c, NextOrder(BNChatMessages, b, c), m, provider))
    ELSE BNChatMessages

failing_save_native_message(b, c, m, provider, at) ==
    /\ ValidProvider(provider)
    /\ BNChatMessages' =
          Rollback(BNChatMessages, MessagesBeforeFailure(b, c, m, provider, at))
    /\ last' = Ret("save_native_message", <<b, c>>,
                   StoreError("Failed to save native message"))
    /\ UNCHANGED <<clock, tz, BNAnalysis, BNContext, BNChatHistory,
                   SystemPrompts, latest, written, cached>>
    /\ SeqStores

\* The calls SettingsService.save_system_prompt makes, each a transaction of
\* its own: save_system_prompt, set_active_system_prompt, set_setting.
PromptSteps == 1..3

\* No call of the three fails.
NoFailure == 0

PromptRow(prompt, version) ==
    [prompt |-> prompt, version |-> version, is_active |-> 0,
     created_at |-> CURRENT_TIMESTAMP]

\* SystemPrompts after the calls that committed before call `at` raised.
PromptsCommitted(prompt, version, at) ==
    IF at = 1 THEN SystemPrompts
    ELSE IF at = 2 THEN Append(SystemPrompts, PromptRow(prompt, version))
    ELSE ActivateVersion(DeactivateAll(Append(SystemPrompts, PromptRow(prompt, version))),
                         version)

\* SettingsService.save_system_prompt: the except clause logs and returns
\* False, whichever of the three calls raised.
settings_save_system_prompt(prompt, version, at) ==
    /\ Len(SystemPrompts) < MaxPrompts
    /\ SystemPrompts' = PromptsCommitted(prompt, version, at)
    /\ settings' = IF at = NoFailure
                   THEN PutSetting(settings, "system_prompt", prompt, "system")
                   ELSE settings
    /\ last' = Ret("SettingsService.save_system_prompt", <<version>>,
                   JBool(at = NoFailure))
    /\ UNCHANGED <<clock, tz, BNAnalysis, BNContext, BNChatHistory, BNChatMessages,
                   latest, written, cached, llm_providers, llm_seq>>
    /\ SeqThreads

\* The provider of the calls below.
FaultName == "A"

\* save_native_message into the empty chat.
first_save_native_message(b, c, m, provider) ==
    /\ RowsOf(BNChatMessages, b, c) = <<>>
    /\ save_native_message(b, c, m, provider)

NextFaults ==
    \/ \E version \in Versions, at \in PromptSteps \cup {NoFailure} :
          settings_save_system_prompt("p1", version, at)
    \/ \E version \in Versions : set_active_system_prompt(version)
    \/ \E version \in Versions, at \in ActivateStatements :
          failing_set_active_system_prompt(version, at)
    \/ add_llm_provider(FaultName, "m1")
    \/ set_active_llm_provider(FaultName)
    \/ \E at \in ProviderStatements : failing_set_active_llm_provider(FaultName, at)
    \/ first_save_native_message(DisplayChat[1], DisplayChat[2], PUser, "openai")
    \/ \E at \in SaveStatements :
          failing_save_native_message(DisplayChat[1], DisplayChat[2], PUser, "openai", at)

SpecFaults == Init /\ [][NextFaults]_vars

\* The RuntimeError text of an operation.
FailureOf(op) ==
    CASE op = "set_active_system_prompt" -> "Failed to set active system prompt"
      [] op = "set_active_llm_provider" -> "Failed to set active LLM provider"
      [] op = "save_native_message" -> "Failed to save native message"
      [] op = "add_llm_provider" -> "Failed to add LLM provider"
      [] op = "update_llm_provider" -> "Failed to update LLM provider"
      [] OTHER -> "Failed"

\* The call that has just returned raised because a statement failed (a
\* ValueError for the provider tag is raised before any statement).
StatementFailed == last.res[1] = "raise" /\ last.res # Raise("ValueError")

\* SettingsService.save_system_prompt has just returned False.
PromptSaveFailed ==
    last.op = "SettingsService.save_system_prompt" /\ last.res = JBool(FALSE)

\* The tables of the two databases.
Persisted ==
    <<BNAnalysis, BNContext, BNChatHistory, BNChatMessages, SystemPrompts,
      llm_providers, settings>>

\* A call in which a statement fails leaves every table as it was before
\* the call.
RaisedPersistsNothing == [][StatementFailed' => Persisted' = Persisted]_vars

\* A failed SettingsService.save_system_prompt leaves every table as it was
\* before the call.
FailedPromptSavePersistsNothing ==
    [][PromptSaveFailed' => Persisted' = Persisted]_vars

\* C19: a call of a mutating operation in which a statement fails leaves
\* every table as it was before the call and raises the store error that
\* names the operation.
C19_AllOrNothing ==
    [][StatementFailed' =>
          (/\ Persisted' = Persisted
           /\ last'.res = StoreError(FailureOf(last'.op)))]_vars

-----------------------------------------------------------------------------
(* cleanup_database, one call at a time: the two sub-steps inside one try    *)

\* The sub-step of cleanup_database that raises, if one does.
CleanupFaults == {"none", "external", "sweep"}

\* The dict cleanup_database returns.
CleanupStats(expired_contexts, old_chat_messages) ==
    JObj(<<<<"expired_contexts", JNum(expired_contexts)>>,
           <<"old_chat_messages", JNum(old_chat_messages)>>>>)

\* The rows DatabaseCleanup.cleanup_expired_data deletes from BNContext.
ExpiredData(table) == {r \in table : ContextExpired(r)}

\* BNContext after the sub-steps that ran: the external cleanup commits its
\* DELETE before the sweep starts, and nothing runs after a sub-step raises.
AfterCleanup(table, fault) ==
    IF fault = "external" THEN table
    ELSE LET swept == DeleteRows(table, ExpiredData(table))
         IN IF fault = "sweep" THEN Rollback(swept, swept)
            ELSE DeleteRows(swept, {r \in swept : ContextExpired(r)})

\* The return value: cleanup_stats with the sweep's count added, or the
\* dict of the except clause.
CleanupResult(table, fault) ==
    IF fault = "none"
    THEN LET swept == DeleteRows(table, ExpiredData(table))
         IN CleanupStats(Cardinality(ExpiredData(table))
                            + Cardinality({r \in swept : ContextExpired(r)}), 0)
    ELSE CleanupStats(0, 0)

cleanup_database(fault) ==
    /\ BNContext' = AfterCleanup(BNContext, fault)
    /\ last' = Ret("cleanup_database", <<fault>>, CleanupResult(BNContext, fault))
    /\ UNCHANGED <<clock, tz, BNAnalysis, BNChatHistory, BNChatMessages,
                   SystemPrompts, latest, written, cached>>
    /\ SeqStores

NextCleanup ==
    \/ \E k \in CtxKeys, d \in CtxData, ttl \in TTLHours :
          save_context_cache(k[1], k[2], d, ttl)
    \/ \E fault \in CleanupFaults : cleanup_database(fault)
    \/ Tick

SpecCleanup == Init /\ [][NextCleanup]_vars

\* A cleanup_database in which no sub-step raises removes the rows
\* get_context_cache would refuse and returns their number.
CleanupWithoutFailure ==
    [][(last'.op = "cleanup_database" /\ last'.key = <<"none">>) =>
          (/\ BNContext' = BNContext \ Refused
           /\ last'.res = CleanupStats(Cardinality(Refused), 0))]_vars

\* C20: when one of the two sub-steps of cleanup_database raises, the other
\* one still runs, so the expired rows are removed, and the returned
\* expired_contexts is the number of rows the call removed.
C20_SubStepsIsolated ==
    [][last'.op = "cleanup_database" =>
          (/\ BNContext' = BNContext \ Refused
           /\ last'.res = CleanupStats(Cardinality(BNContext \ BNContext'), 0))]_vars

-----------------------------------------------------------------------------
(* The legacy chat history, the chat names, the settings and the MCP         *)
(* providers, one call at a time                                             *)

MaxLegacyRows == 2
MaxMcpIds == 2
ChatNames == {"n1", "n2"}
McpNames == {"M"}
\* A key set_setting writes and a key no call writes.
SettingKeys == {"theme", "font"}
\* The id of the first provider of a table and an id no row has.
DeleteIds == 1..2

\* The tables the calls of this section leave alone.
OtherAnalysisTables ==
    UNCHANGED <<clock, tz, BNAnalysis, BNContext, BNChatMessages, SystemPrompts,
                latest, written, cached, llm_providers, llm_seq>>

\* The row save_chat_message inserts.
ChatRow(b, c, order, role, content, metadata) ==
    [binary_hash |-> b, chat_id |-> c, message_order |-> order,
     role |-> role, content |-> content,
     metadata |-> IF Truthy(metadata) THEN Dumps(metadata) ELSE NULL,
     created_at |-> CURRENT_TIMESTAMP]

save_chat_message(b, c, role, content, metadata) ==
    /\ Len(BNChatHistory) < MaxLegacyRows
    /\ BNChatHistory' = Append(BNChatHistory,
            ChatRow(b, c, NextOrder(BNChatHistory, b, c), role, content, metadata))
    /\ last' = Ret("save_chat_message", <<b, c>>, JNull)
    /\ UNCHANGED <<BNChatMetadata, mcp_providers, mcp_seq, settings>>
    /\ OtherAnalysisTables
    /\ NoThreadMoves

\* json.loads(row[4]) if row[4] else {}
StoredMetadata(metadata) ==
    IF metadata = NULL THEN [ok |-> TRUE, val |-> JObj(<<>>)]
    ELSE LoadsParsed(ParseValue(metadata))

\* The dict get_chat_history builds from a row (its id apart).
ChatDict(r) ==
    JObj(<< <<"binary_hash", JStr(r.binary_hash)>>,
            <<"chat_id", JStr(r.chat_id)>>,
            <<"message_order", JNum(r.message_order)>>,
            <<"role", JStr(r.role)>>,
            <<"content", JStr(r.content)>>,
            <<"metadata", StoredMetadata(r.metadata).val>>,
            <<"created_at", JStr(r.created_at)>> >>)

\* The loop over the rows: json.loads raises on a text that is no JSON, and
\* the except clause raises the RuntimeError of the operation.
ChatDicts(rows) ==
    IF \E i \in 1..Len(rows) : ~StoredMetadata(rows[i].metadata).ok
    THEN StoreError("Failed to get chat history")
    ELSE JList([i \in 1..Len(rows) |-> ChatDict(rows[i])])

ChatHistory(b, c) == ChatDicts(OrderRows(RowsOf(BNChatHistory, b, c)))

get_chat_history(b, c) ==
    /\ last' = Ret("get_chat_history", <<b, c>>, ChatHistory(b, c))
    /\ UNCHANGED <<BNChatHistory, BNChatMetadata, mcp_providers, mcp_seq, settings>>
    /\ OtherAnalysisTables
    /\ NoThreadMoves

\* DELETE ... WHERE binary_hash = ? AND chat_id = ? that stops at one row.
DeleteFirstOfChat(table, b, c) ==
    LET hits == {i \in 1..Len(table) : ChatKeyOf(table[i]) = <<b, c>>}
        first == CHOOSE i \in hits : \A j \in hits : i <= j
    IN IF hits = {} THEN table
       ELSE [j \in 1..(Len(table) - 1) |-> IF j < first THEN table[j] ELSE table[j + 1]]

\* DELETE FROM BNChatHistory WHERE binary_hash = ? AND chat_id = ?
DeleteChat(table, b, c) == SelectSeq(table, LAMBDA r : ChatKeyOf(r) # <<b, c>>)

delete_chat(b, c) ==
    /\ BNChatHistory' = DeleteChat(BNChatHistory, b, c)
    /\ last' = Ret("delete_chat", <<b, c>>,
                   JBool(Len(RowsOf(BNChatHistory, b, c)) > 0))
    /\ UNCHANGED <<BNChatMetadata, mcp_providers, mcp_seq, settings>>
    /\ OtherAnalysisTables
    /\ NoThreadMoves

\* INSERT OR REPLACE INTO BNChatMetadata, UNIQUE(binary_hash, chat_id).
UpsertChatMetadata(table, row) ==
    {r \in table : ChatKeyOf(r) # ChatKeyOf(row)} \cup {row}

save_chat_metadata(b, c, name) ==
    /\ BNChatMetadata' = UpsertChatMetadata(BNChatMetadata,
            [binary_hash |-> b, chat_id |-> c, name |-> name,
             created_at |-> CURRENT_TIMESTAMP, updated_at |-> CURRENT_TIMESTAMP])
    /\ last' = Ret("save_chat_metadata", <<b, c>>, JNull)
    /\ UNCHANGED <<BNChatHistory, mcp_providers, mcp_seq, settings>>
    /\ OtherAnalysisTables
    /\ NoThreadMoves

\* The dict get_chat_metadata builds from a row (its id apart).
ChatMetadataDict(r) ==
    JObj(<< <<"binary_hash", JStr(r.binary_hash)>>,
            <<"chat_id", JStr(r.chat_id)>>,
            <<"name", JStr(r.name)>>,
            <<"created_at", JStr(r.created_at)>>,
            <<"updated_at", JStr(r.updated_at)>> >>)

\* fetchone() subscripted without the test for None.
ChatMetadataOfRow(b, c) ==
    LET rows == {r \in BNChatMetadata : ChatKeyOf(r) = <<b, c>>}
    IN IF rows = {} THEN Raise("TypeError")
       ELSE ChatMetadataDict(CHOOSE r \in rows : TRUE)

\* fetchone(): the row, or None.
ChatMetadataLookup(b, c) ==
    LET rows == {r \in BNChatMetadata : ChatKeyOf(r) = <<b, c>>}
    IN IF rows = {} THEN JNull ELSE ChatMetadataDict(CHOOSE r \in rows : TRUE)

get_chat_metadata(b, c) ==
    /\ last' = Ret("get_chat_metadata", <<b, c>>, ChatMetadataLookup(b, c))
    /\ UNCHANGED <<BNChatHistory, BNChatMetadata, mcp_providers, mcp_seq, settings>>
    /\ OtherAnalysisTables
    /\ NoThreadMoves

\* The orders ORDER BY updated_at DESC may give the rows: rows of one
\* updated_at come in an order of SQLite's choosing.
RecentFirst(rows) ==
    {order \in [1..Cardinality(rows) -> rows] :
        /\ \A i, j \in 1..Cardinality(rows) : i # j => order[i] # order[j]
        /\ \A i, j \in 1..Cardinality(rows) :
              i < j => ~TextLess(order[i].updated_at, order[j].updated_at)}

get_all_chat_metadata(b) ==
    /\ \E order \in RecentFirst({r \in BNChatMetadata : r.binary_hash = b}) :
          last' = Ret("get_all_chat_metadata", <<b>>,
                      JList([i \in 1..Len(order) |-> ChatMetadataDict(order[i])]))
    /\ UNCHANGED <<BNChatHistory, BNChatMetadata, mcp_providers, mcp_seq, settings>>
    /\ OtherAnalysisTables
    /\ NoThreadMoves

delete_chat_metadata(b, c) ==
    LET gone == {r \in BNChatMetadata : ChatKeyOf(r) = <<b, c>>}
    IN /\ BNChatMetadata' = DeleteRows(BNChatMetadata, gone)
       /\ last' = Ret("delete_chat_metadata", <<b, c>>, JBool(Cardinality(gone) > 0))
       /\ UNCHANGED <<BNChatHistory, mcp_providers, mcp_seq, settings>>
       /\ OtherAnalysisTables
       /\ NoThreadMoves

get_function_analyses(b, f) ==
    /\ \E order \in RecentFirst({r \in BNAnalysis :
                                    r.binary_hash = b /\ r.function_start = f}) :
          last' = Ret("get_function_analyses", <<b, f>>,
                      JList([i \in 1..Len(order) |-> AnalysisDict(order[i])]))
    /\ UNCHANGED <<BNChatHistory, BNChatMetadata, mcp_providers, mcp_seq, settings>>
    /\ OtherAnalysisTables
    /\ NoThreadMoves

\* set_setting of a str: INSERT OR REPLACE INTO settings.
set_setting(key, value, category) ==
    /\ settings' = PutSetting(settings, key, value, category)
    /\ last' = Ret("set_setting", <<key>>, JBool(TRUE))
    /\ UNCHANGED <<BNChatHistory, BNChatMetadata, mcp_providers, mcp_seq>>
    /\ OtherAnalysisTables
    /\ NoThreadMoves

delete_setting(key) ==
    LET gone == {r \in settings : r.key = key}
    IN /\ settings' = DeleteRows(settings, gone)
       /\ last' = Ret("delete_setting", <<key>>, JBool(Cardinality(gone) > 0))
       /\ UNCHANGED <<BNChatHistory, BNChatMetadata, mcp_providers, mcp_seq>>
       /\ OtherAnalysisTables
       /\ NoThreadMoves

\* The row the INSERT of add_mcp_provider writes.
McpRow(id, name) ==
    [id |-> id, name |-> name, url |-> "u", enabled |-> TRUE, transport |-> "HTTP"]

add_mcp_provider(name) ==
    /\ mcp_seq < MaxMcpIds
    /\ IF NameTaken(mcp_providers, name, 0)
       THEN /\ last' = Ret("add_mcp_provider", <<name>>, AlreadyExists)
            /\ UNCHANGED <<mcp_providers, mcp_seq>>
       ELSE /\ mcp_providers' = Append(mcp_providers, McpRow(mcp_seq + 1, name))
            /\ mcp_seq' = mcp_seq + 1
            /\ last' = Ret("add_mcp_provider", <<name>>, JNum(mcp_seq + 1))
    /\ UNCHANGED <<BNChatHistory, BNChatMetadata, settings>>
    /\ OtherAnalysisTables
    /\ NoThreadMoves

delete_mcp_provider(provider_id) ==
    LET kept == SelectSeq(mcp_providers, LAMBDA r : r.id # provider_id)
    IN /\ mcp_providers' = kept
       /\ last' = Ret("delete_mcp_provider", <<provider_id>>,
                      JBool(Len(mcp_providers) - Len(kept) > 0))
       /\ UNCHANGED <<BNChatHistory, BNChatMetadata, settings, mcp_seq>>
       /\ OtherAnalysisTables
       /\ NoThreadMoves

\* The first add_llm_provider and the first add_mcp_provider of a database.
first_add_llm_provider(name, model) == llm_seq = 0 /\ add_llm_provider(name, model)
first_add_mcp_provider(name) == mcp_seq = 0 /\ add_mcp_provider(name)

NextDelete ==
    \/ save_function_analysis("h1", 1, "explain", "r1", JNull)
    \/ \E k \in AnKeys : delete_function_analysis(k[1], k[2], k[3])
    \/ save_chat_message("h1", "c1", S_user, "hello", JNull)
    \/ \E k \in ChatKeys : delete_chat(k[1], k[2])
    \/ save_native_message("h1", "c1", PUser, "openai")
    \/ \E k \in ChatKeys : delete_native_chat(k[1], k[2])
    \/ save_chat_metadata("h1", "c1", "n1")
    \/ \E k \in ChatKeys : delete_chat_metadata(k[1], k[2])
    \/ set_setting("theme", "dark", "ui")
    \/ \E key \in SettingKeys : delete_setting(key)
    \/ first_add_llm_provider("A", "m1")
    \/ \E id \in DeleteIds : delete_llm_provider(id)
    \/ \E name \in McpNames : first_add_mcp_provider(name)
    \/ \E id \in DeleteIds : delete_mcp_provider(id)

SpecDelete == Init /\ [][NextDelete]_vars

DeleteOps ==
    {"delete_function_analysis", "delete_chat", "delete_native_chat",
     "delete_chat_metadata", "delete_setting", "delete_llm_provider",
     "delete_mcp_provider"}

\* The keys a delete operation is called with.
DeleteKeys(op) ==
    CASE op = "delete_function_analysis" -> AnKeys
      [] op \in {"delete_chat", "delete_native_chat", "delete_chat_metadata"} -> ChatKeys
      [] op = "delete_setting" -> {<<key>> : key \in SettingKeys}
      [] OTHER -> {<<id>> : id \in DeleteIds}

\* The number of rows the key of a delete operation matches.
Matching(op, key) ==
    CASE op = "delete_function_analysis" ->
            Cardinality({r \in BNAnalysis : AnKeyOf(r) = key})
      [] op = "delete_chat" -> Len(RowsOf(BNChatHistory, key[1], key[2]))
      [] op = "delete_native_chat" -> Len(RowsOf(BNChatMessages, key[1], key[2]))
      [] op = "delete_chat_metadata" ->
            Cardinality({r \in BNChatMetadata : ChatKeyOf(r) = key})
      [] op = "delete_setting" -> Cardinality({r \in settings : r.key = key[1]})
      [] op = "delete_llm_provider" ->
            Len(SelectSeq(llm_providers, LAMBDA r : r.id = key[1]))
      [] op = "delete_mcp_provider" ->
            Len(SelectSeq(mcp_providers, LAMBDA r : r.id = key[1]))

\* Every table of the two databases.
AllTables == <<Persisted, BNChatMetadata, mcp_providers>>

\* The number of rows in the tables the delete operations work on.
RowCount ==
    Cardinality(BNAnalysis) + Len(BNChatHistory) + Len(BNChatMessages)
        + Cardinality(BNChatMetadata) + Cardinality(settings)
        + Len(llm_providers) + Len(mcp_providers)

\* C21: a delete operation returns true exactly when a row matched its key
\* before the call; after it no row matches the key and no other row is gone;
\* when no row matched (a second delete of the key included) it returns false
\* and every table is as it was.
C21_DeleteReportsExistence ==
    [][\A op \in DeleteOps : \A key \in DeleteKeys(op) :
          (last'.op = op /\ last'.key = key) =>
              /\ last'.res = JBool(Matching(op, key) > 0)
              /\ Matching(op, key)' = 0
              /\ RowCount' = RowCount - Matching(op, key)
              /\ Matching(op, key) = 0 => AllTables' = AllTables]_vars

\* delete_chat called after a delete_chat returns false, while the other
\* tables hold rows.
C21_Witness ==
    /\ last.op = "delete_chat"
    /\ last.res = JBool(FALSE)
    /\ last.again
    /\ last.key = <<"h1", "c1">>
    /\ BNChatHistory = <<>>
    /\ Len(BNChatMessages) = 2
    /\ mcp_seq = 1 /\ mcp_providers = <<>>


-----------------------------------------------------------------------------
(* Lookups of keys that have no row *)

\* The binary of the store's rows and a binary no call names in a save.
LookupHashes == Hashes \cup {"h2"}

LookupCtx == JObj(<< <<"code", JStr("a")>> >>)

\* save_chat_message into the empty chat.
first_save_chat_message(b, c, role, content, metadata) ==
    /\ RowsOf(BNChatHistory, b, c) = <<>>
    /\ save_chat_message(b, c, role, content, metadata)

\* save_system_prompt into the empty table.
first_save_system_prompt(prompt, version) ==
    /\ SystemPrompts = <<>>
    /\ save_system_prompt(prompt, version)

NextLookup ==
    \/ save_function_analysis("h1", 1, "explain", "r1", JNull)
    \/ \E k \in AnKeys : delete_function_analysis(k[1], k[2], k[3])
    \/ \E k \in AnKeys : get_function_analysis(k[1], k[2], k[3])
    \/ \E b \in LookupHashes, f \in Functions : get_function_analyses(b, f)
    \/ save_context_cache("h1", 1, LookupCtx, 1)
    \/ \E k \in CtxKeys : get_context_cache(k[1], k[2])
    \/ first_save_chat_message("h1", "c1", S_user, "hello", JNull)
    \/ \E k \in ChatKeys : delete_chat(k[1], k[2])
    \/ \E k \in ChatKeys : get_chat_history(k[1], k[2])
    \/ first_save_native_message("h1", "c1", PUser, "openai")
    \/ \E k \in ChatKeys : delete_native_chat(k[1], k[2])
    \/ \E k \in ChatKeys : get_native_messages(k[1], k[2], JNull)
    \/ \E k \in ChatKeys : get_display_messages(k[1], k[2])
    \/ save_chat_metadata("h1", "c1", "n1")
    \/ \E k \in ChatKeys : delete_chat_metadata(k[1], k[2])
    \/ \E k \in ChatKeys : get_chat_metadata(k[1], k[2])
    \/ \E b \in LookupHashes : get_all_chat_metadata(b)
    \/ first_save_system_prompt("p1", "v1")
    \/ \E v \in Versions : set_active_system_prompt(v)
    \/ get_active_system_prompt

SpecLookup == Init /\ [][NextLookup]_vars

SingleLookups == {"get_function_analysis", "get_context_cache", "get_chat_metadata",
                  "get_active_system_prompt"}

ManyLookups == {"get_function_analyses", "get_chat_history", "get_native_messages",
                "get_display_messages", "get_all_chat_metadata"}

\* The keys the lookups are called with.
LookupKeys(op) ==
    CASE op = "get_function_analysis" -> AnKeys
      [] op = "get_context_cache" -> CtxKeys
      [] op \in {"get_chat_metadata", "get_chat_history", "get_display_messages"} -> ChatKeys
      [] op = "get_active_system_prompt" -> {NoKey}
      [] op = "get_function_analyses" -> LookupHashes \X Functions
      [] op = "get_native_messages" -> ChatKeys \X {JNull}
      [] op = "get_all_chat_metadata" -> {<<b>> : b \in LookupHashes}

\* No row of the table the lookup reads has the key.
NoRow(op, key) ==
    CASE op = "get_function_analysis" -> \A r \in BNAnalysis : AnKeyOf(r) # key
      [] op = "get_context_cache" -> \A r \in BNContext : CtxKeyOf(r) # key
      [] op = "get_chat_metadata" -> \A r \in BNChatMetadata : ChatKeyOf(r) # key
      [] op = "get_active_system_prompt" ->
            \A i \in 1..Len(SystemPrompts) : SystemPrompts[i].is_active # 1
      [] op = "get_function_analyses" ->
            \A r \in BNAnalysis : <<r.binary_hash, r.function_start>> # key
      [] op = "get_chat_history" ->
            \A i \in 1..Len(BNChatHistory) : ChatKeyOf(BNChatHistory[i]) # key
      [] op = "get_native_messages" ->
            \A i \in 1..Len(BNChatMessages) :
                ChatKeyOf(BNChatMessages[i]) # <<key[1], key[2]>>
      [] op = "get_display_messages" ->
            \A i \in 1..Len(BNChatMessages) : ChatKeyOf(BNChatMessages[i]) # key
      [] op = "get_all_chat_metadata" ->
            \A r \in BNChatMetadata : r.binary_hash # key[1]

\* None of a single-row lookup, the empty list of a read-many lookup.
Absent(op) == IF op \in SingleLookups THEN JNull ELSE JList(<<>>)

\* C22: a lookup whose key has no row returns the absent value (None of a
\* single-row lookup, the empty list of a read-many lookup) and never raises,
\* for keys never written and keys whose rows were deleted, and it changes no
\* table.
C22_NoRowIsNoError ==
    [][\A op \in SingleLookups \cup ManyLookups : \A key \in LookupKeys(op) :
          (last'.op = op /\ last'.key = key /\ NoRow(op, key)) =>
              /\ last'.res = Absent(op)
              /\ AllTables' = AllTables]_vars

\* get_display_messages of a chat without native rows has returned the empty
\* list, while the other tables hold rows, the legacy rows of the chat included.
C22_Witness ==
    /\ last.op = "get_display_messages"
    /\ last.key = <<"h1", "c1">>
    /\ last.res = JList(<<>>)
    /\ BNChatMessages = <<>>
    /\ Len(BNChatHistory) > 0
    /\ BNAnalysis # {}
    /\ BNContext # {}
    /\ BNChatMetadata # {}

-----------------------------------------------------------------------------
(* The rows of a transcript that are shown, and the text of the user rows *)

UserPayload(text) == JObj(<< <<"role", JStr(S_user)>>, <<"content", JStr(text)>> >>)

\* The query with the section of the MCP tools after it.
UQueryTools == <<"A", "n", "a", "l", "y", "z", "e", " ", "t", "h", "i", "s", ".", "\n", "\n", "A", "v", "a", "i", "l", "a", "b", "l", "e", " ", "M", "C", "P", " ", "T", "o", "o", "l", "s", "\n", "f", ":", " ", "g">>
\* The RAG section, and the section of the MCP tools after it.
UQueryRagTools == <<"q", "\n", "*", "*", "R", "A", "G", " ", "C", "o", "n", "t", "e", "x", "t", "*", "*", "\n", "r", "\n", "A", "v", "a", "i", "l", "a", "b", "l", "e", " ", "M", "C", "P", " ", "T", "o", "o", "l", "s", "\n", "f">>
UQueryRag == <<"q", "\n", "\n", "*", "*", "R", "A", "G", " ", "C", "o", "n", "t", "e", "x", "t", "*", "*", "\n", "r">>
\* The sentence after a blank line, and after a space.
UQuerySentence == <<"g", "o", "\n", "\n", "U", "s", "e", " ", "t", "h", "e", " ", "a", "v", "a", "i", "l", "a", "b", "l", "e", " ", "t", "o", "o", "l", " ", "c", "a", "l", "l", "s", " ", "a", "s", " ", "n", "e", "e", "d", "e", "d", ".">>
UQueryInline == <<"g", "o", " ", "U", "s", "e", " ", "t", "h", "e", " ", "a", "v", "a", "i", "l", "a", "b", "l", "e", " ", "t", "o", "o", "l", " ", "c", "a", "l", "l", "s", " ", "a", "s", " ", "n", "e", "e", "d", "e", "d", ".">>
\* Nothing but injected context.
UContextOnly == <<"A", "v", "a", "i", "l", "a", "b", "l", "e", " ", "M", "C", "P", " ", "T", "o", "o", "l", "s", "\n", "f">>

PAssistantEmpty == JObj(<< <<"role", JStr(S_assistant)>>, <<"content", JNull>> >>)
PToolEmpty ==
    JObj(<< <<"role", JStr(S_tool)>>, <<"content", JStr(<<" ">>)>>,
            <<"name", JStr(<<"f">>)>> >>)

UserTexts == {UQueryTools, UQueryRagTools, UQueryRag, UQuerySentence, UQueryInline,
              UContextOnly}

ShownInputs ==
    {<<UserPayload(text), "openai">> : text \in UserTexts}
        \cup { <<PAssistantOk, "openai">>, <<PAssistantEmpty, "openai">>,
               <<PToolResult, "openai">>, <<PToolEmpty, "openai">> }

NextShown ==
    \/ \E in \in ShownInputs :
          save_native_message(DisplayChat[1], DisplayChat[2], in[1], in[2])
    \/ get_display_messages(DisplayChat[1], DisplayChat[2])

SpecShown == Init /\ [][NextShown]_vars

\* The row of the chat that has the message_order of a dict of the transcript.
RowOfDict(d) ==
    CHOOSE r \in {BNChatMessages[i] : i \in 1..Len(BNChatMessages)} :
        /\ ChatKeyOf(r) = DisplayChat
        /\ JNum(r.message_order) = Field(d, "message_order", JNull)

\* The text in front of the first occurrence of a marker.
Preceding(text, marker) == UpTo(text, Find(text, marker))

\* What the display text of a user row is said to be.
SaidUserText(text) ==
    IF Contains(text, T_MCPTools) THEN Strip(Preceding(text, T_MCPTools))
    ELSE IF Contains(text, T_RAGContext) THEN Strip(Preceding(text, T_RAGContext))
    ELSE Strip(Remove(text, T_UseTools))

\* C23: the display text of a user row is the trimmed text in front of the
\* marker 'Available MCP Tools' if the content has it, else the trimmed text in
\* front of '**RAG Context**' if the content has that, else the content
\* without the sentence 'Use the available tool calls as needed.'.
C23_UserTextCleaned ==
    last.op = "get_display_messages" =>
        \A p \in 1..Len(last.res[2]) :
            Field(last.res[2][p], "role", JNull) = JStr(S_user) =>
                Field(last.res[2][p], "content", JNull)
                    = JStr(SaidUserText(RowOfDict(last.res[2][p]).content_text))

\* The payloads whose rendering is the empty string: a user row of injected
\* context only, an assistant row without text and tool calls, a tool row
\* without output.
EmptyPayloads == {UserPayload(UContextOnly), PAssistantEmpty, PToolEmpty}

FromEmptyPayload(native_message_data) ==
    \E m \in EmptyPayloads : native_message_data = StoredText(m)

\* The message_order values of the representatives whose payload renders to
\* text.
OrdersWithText ==
    LET grouped == GroupAndDeduplicate(RawMessages(DisplayChat[1], DisplayChat[2]))
    IN {grouped[i].message_order : i \in
           {i \in 1..Len(grouped) :
               \A m \in EmptyPayloads : grouped[i].native_data # m}}

\* C27: no message get_display_messages returns has the empty string as
\* content; the representatives whose rendering is empty (a tool row without
\* output, a user row of injected context only, an assistant row without text
\* and tool calls) are left out and all others are there; the message_order of
\* the messages returned is strictly increasing.
C27_ShownHaveContent ==
    last.op = "get_display_messages" =>
        /\ \A p \in 1..Len(last.res[2]) :
              /\ Field(last.res[2][p], "content", JNull) # JStr(<<>>)
              /\ ~FromEmptyPayload(RowOfDict(last.res[2][p]).native_message_data)
        /\ \A p \in 1..Len(last.res[2]) : \A q \in 1..Len(last.res[2]) :
              p < q => Field(last.res[2][p], "message_order", JNull)[2]
                          < Field(last.res[2][q], "message_order", JNull)[2]
        /\ {Field(last.res[2][p], "message_order", JNull)[2] : p \in 1..Len(last.res[2])}
              = OrdersWithText

\* Of a user row, a user row of injected context only and a tool row, the
\* first and the third were returned.
C27_Witness ==
    /\ last.op = "get_display_messages"
    /\ Len(BNChatMessages) = 3
    /\ BNChatMessages[1].content_text = UQueryRag
    /\ BNChatMessages[2].content_text = UContextOnly
    /\ BNChatMessages[3].role = S_tool
    /\ ~FromEmptyPayload(BNChatMessages[3].native_message_data)
    /\ Len(last.res[2]) = 2

-----------------------------------------------------------------------------
(* The rendering of assistant rows and of tool rows *)

\* The rows of the chat whose rendering is examined.
MaxRendered == 2

\* An entry of a tool_calls list in the OpenAI form.
FunctionCall(name, arguments) ==
    JObj(<< <<"function", JObj(<< <<"name", JStr(name)>>, <<"arguments", arguments>> >>)>> >>)

\* An assistant message with a tool_calls list.
AssistantCalls(content, tool_calls) ==
    JObj(<< <<"role", JStr(S_assistant)>>, <<"content", content>>,
            <<"tool_calls", JList(tool_calls)>> >>)

T_get_disassembly == <<"g", "e", "t", "_", "d", "i", "s", "a", "s", "s", "e", "m", "b", "l", "y">>

POpenAIDisasm ==
    AssistantCalls(JNull, << FunctionCall(T_get_disassembly, JStr(<<"{", "\"", "a", "d", "d", "r", "\"", ":", "4", "0", "9", "6", "}">>)) >>)
POpenAITwo ==
    AssistantCalls(JStr(<<"s", "e", "e">>),
                   << FunctionCall(<<"f">>, JStr(<<"{", "\"", "a", "\"", ":", "1", "}">>)),
                      FunctionCall(<<"g">>, JStr(<<"{", "}">>)) >>)
\* Two entries, the first without a name.
POpenAIOneNamed ==
    AssistantCalls(JNull,
                   << JObj(<< <<"function", JObj(<< <<"arguments", JStr(<<"{", "}">>)>> >>)>> >>),
                      FunctionCall(<<"f">>, JStr(<<"{", "}">>)) >>)
\* Arguments that are no JSON, and arguments that are JSON and no object.
POpenAIRawArgs ==
    AssistantCalls(JNull, << FunctionCall(<<"f">>, JStr(<<"n", "o">>)) >>)
POpenAIListArgs ==
    AssistantCalls(JStr(<<"t">>), << FunctionCall(<<"f">>, JStr(<<"[", "1", "]">>)) >>)

\* A text of n characters.
TextOfLen(n) == [i \in 1..n |-> "x"]

\* A tool_use block whose input has a value of each kind, the strings of 30
\* and of 31 characters.
PAnthropicArgs ==
    JObj(<< <<"role", JStr(S_assistant)>>,
            <<"content", JList(<<
                JObj(<< <<"type", JStr(S_tool_use)>>, <<"name", JStr(<<"f">>)>>,
                        <<"input", JObj(<< << <<"s">>, JStr(TextOfLen(ArgPreview))>>,
                                           << <<"t">>, JStr(TextOfLen(ArgPreview + 1))>>,
                                           << <<"n">>, JNum(7)>>,
                                           << <<"b">>, JBool(TRUE)>>,
                                           << <<"l">>, JList(<<JNum(1), JNum(2)>>)>>,
                                           << <<"o">>, JObj(<< << <<"k">>, JNum(1)>> >>)>> >>)>> >>) >>)>> >>)

\* Ollama: tool calls at the top and under 'message', under 'message' only,
\* and under 'message' with an empty list at the top.
POllamaBoth ==
    JObj(<< <<"role", JStr(S_assistant)>>, <<"content", JStr(<<>>)>>,
            <<"tool_calls", JList(<< FunctionCall(<<"f">>, JObj(<<>>)) >>)>>,
            <<"message", JObj(<< <<"tool_calls",
                                   JList(<< FunctionCall(<<"g">>, JObj(<<>>)) >>)>> >>)>> >>)
POllamaNested ==
    JObj(<< <<"role", JStr(S_assistant)>>, <<"content", JStr(<<>>)>>,
            <<"message", JObj(<< <<"tool_calls",
                                   JList(<< FunctionCall(<<"g">>, JObj(<<>>)) >>)>> >>)>> >>)
POllamaEmptyTop ==
    JObj(<< <<"role", JStr(S_assistant)>>, <<"content", JStr(<<>>)>>,
            <<"tool_calls", JList(<<>>)>>,
            <<"message", JObj(<< <<"tool_calls",
                                   JList(<< FunctionCall(<<"g">>, JObj(<<>>)) >>)>> >>)>> >>)

\* A tool message without a name.
ToolPayload(content) == JObj(<< <<"role", JStr(S_tool)>>, <<"content", JStr(content)>> >>)
\* A tool message with the name f.
NamedToolPayload(content) ==
    JObj(<< <<"role", JStr(S_tool)>>, <<"content", JStr(content)>>,
            <<"name", JStr(<<"f">>)>> >>)

T_ToolLineOut == <<"T", "o", "o", "l", ":", " ", "*", "g", "*", " ", "d", "o", "n", "e", "\n", "o", "u", "t">>

RenderInputs ==
    { <<POpenAIDisasm, "openai">>, <<POpenAITwo, "openai">>, <<POpenAIOneNamed, "openai">>,
      <<POpenAIArgs, "openai">>, <<PAssistantPadded, "openai">>,
      <<POpenAIRawArgs, "openai">>, <<POpenAIListArgs, "openai">>,
      <<PAnthropicArgs, "anthropic">>,
      <<POllamaBoth, "ollama">>, <<POllamaNested, "ollama">>, <<POllamaEmptyTop, "ollama">>,
      <<NamedToolPayload(<<"r">>), "openai">>,
      <<ToolPayload(T_ToolLineOut), "openai">>,
      <<ToolPayload(<<"r">>), "openai">>,
      <<NamedToolPayload(TextOfLen(ToolPreview)), "openai">>,
      <<NamedToolPayload(TextOfLen(ToolPreview + 1)), "openai">> }

\* save_native_message while the chat has fewer than MaxRendered rows.
save_rendered(m, provider) ==
    /\ Len(BNChatMessages) < MaxRendered
    /\ save_native_message(DisplayChat[1], DisplayChat[2], m, provider)

NextRender ==
    \/ \E in \in RenderInputs : save_rendered(in[1], in[2])
    \/ get_display_messages(DisplayChat[1], DisplayChat[2])

SpecRender == Init /\ [][NextRender]_vars

\* The rows of the chat as get_display_messages reads them.
RenderedRows == RawMessagesWithSystem(DisplayChat[1], DisplayChat[2])

\* The named tool calls of the payload of a row, in payload order.
NamedCalls(msg) == ToolCallsOf(msg.native_data, msg.provider_type).details

\* name(args), or the name alone when the call has no arguments.
SaidCall(d) ==
    IF FormatArgsCompact(d.args) = <<>> THEN d.name[2]
    ELSE d.name[2] \o <<"(">> \o FormatArgsCompact(d.args) \o <<")">>

\* The block of k tool calls.
SaidBlock(details) ==
    IF Len(details) = 1 THEN T_ToolOpen \o SaidCall(details[1]) \o <<"]">>
    ELSE Join(<<T_ToolsCalled>>
                  \o [i \in 1..Len(details) |->
                         <<" ", " ">> \o IntText(i) \o <<".", " ">> \o SaidCall(details[i])],
              <<"\n">>)

\* The block, a blank line and the free text; the block alone; the free text alone.
SaidAssistantText(details, free) ==
    IF Len(details) = 0 THEN free
    ELSE IF free = <<>> THEN SaidBlock(details)
    ELSE SaidBlock(details) \o <<"\n", "\n">> \o free

\* C24: the rendering of an assistant row takes the tool calls from the native
\* payload: one named call gives '[Tool: name(args)]', k > 1 give the line
\* '[Tools called:]' and k lines numbered 1..k in payload order; the block
\* comes first, then a blank line and the cleaned text, the block alone when
\* there is no text, and the cleaned text alone when the payload has no tool
\* call. The OpenAI payload with the call get_disassembly and the arguments
\* '{"addr":4096}' gives '[Tool: get_disassembly(addr=4096)]'. (Arguments
\* that are JSON objects or no JSON at all.)
C24_AssistantRendering ==
    \A i \in 1..Len(RenderedRows) :
        LET msg == RenderedRows[i]
        IN (IsAssistant(msg) /\ \A j \in 1..Len(NamedCalls(msg)) : ~ArgsRaise(NamedCalls(msg)[j].args))
           => /\ FormattedContent(msg)
                    = SaidAssistantText(NamedCalls(msg), CleanContent(msg.content_text))
              /\ msg.native_data = POpenAIDisasm
                    => FormattedContent(msg) = <<"[", "T", "o", "o", "l", ":", " ", "g", "e", "t", "_", "d", "i", "s", "a", "s", "s", "e", "m", "b", "l", "y", "(", "a", "d", "d", "r", "=", "4", "0", "9", "6", ")", "]">>
              /\ msg.native_data = POpenAITwo
                    => FormattedContent(msg) = <<"[", "T", "o", "o", "l", "s", " ", "c", "a", "l", "l", "e", "d", ":", "]", "\n", " ", " ", "1", ".", " ", "f", "(", "a", "=", "1", ")", "\n", " ", " ", "2", ".", " ", "g", "\n", "\n", "s", "e", "e">>
              /\ msg.native_data = POpenAIArgs
                    => FormattedContent(msg) = <<"[", "T", "o", "o", "l", ":", " ", "g", "(", "q", "=", "\"", "x", "\"", ")", "]", "\n", "\n", "s", "e", "e">>
              /\ msg.native_data = POpenAIOneNamed
                    => FormattedContent(msg) = <<"[", "T", "o", "o", "l", ":", " ", "f", "]">>
              /\ msg.native_data = PAssistantPadded
                    => FormattedContent(msg) = <<"n", "o">>

\* The transcript of the row with the call get_disassembly and of the row with
\* two calls and a text was read.
C24_Witness ==
    /\ last.op = "get_display_messages"
    /\ Len(RenderedRows) = 2
    /\ RenderedRows[1].native_data = POpenAITwo
    /\ RenderedRows[2].native_data = POpenAIDisasm
    /\ Len(last.res[2]) = 1

\* name=value of a str: in quotes, the first ArgPreview characters and an
\* ellipsis when it is longer than that.
SaidStrArg(key, text) ==
    IF Len(text) > ArgPreview
    THEN key \o <<"=", "\"">> \o SubSeq(text, 1, ArgPreview) \o <<".", ".", ".", "\"">>
    ELSE key \o <<"=", "\"">> \o text \o <<"\"">>

\* C25: in the compact arguments a string longer than 30 characters is its
\* first 30 characters and an ellipsis, in quotes, a string of 30 characters
\* or fewer is whole, in quotes; a number and a boolean are printed as they
\* are, a list as '[N items]' and an object as '{N keys}'; the arguments are
\* joined in payload order.
C25_CompactArgs ==
    \A i \in 1..Len(RenderedRows) :
        LET msg == RenderedRows[i]
        IN msg.native_data = PAnthropicArgs =>
              FormattedContent(msg)
                 = T_ToolOpen \o <<"f", "(">>
                      \o SaidStrArg(<<"s">>, TextOfLen(ArgPreview)) \o <<",", " ">>
                      \o SaidStrArg(<<"t">>, TextOfLen(ArgPreview + 1)) \o <<",", " ">>
                      \o <<"n", "=", "7", ",", " ", "b", "=", "T", "r", "u", "e", ",", " ", "l", "=", "[", "2", " ", "i", "t", "e", "m", "s", "]", ",", " ", "o", "=", "{", "1", " ", "k", "e", "y", "s", "}", ")", "]">>

\* The transcript of the row whose tool call has a string of 30 and a string
\* of 31 characters was read: the first is whole, the second cut.
C25_Witness ==
    /\ last.op = "get_display_messages"
    /\ Len(RenderedRows) = 1
    /\ RenderedRows[1].native_data = PAnthropicArgs
    /\ Len(last.res[2]) = 1
    /\ Field(last.res[2][1], "content", JNull)
          = JStr(<<"[", "T", "o", "o", "l", ":", " ", "f", "(", "s", "=", "\"", "x", "x", "x", "x", "x", "x", "x", "x", "x", "x", "x", "x", "x", "x", "x", "x", "x", "x", "x", "x", "x", "x", "x", "x", "x", "x", "x", "x", "x", "x", "\"", ",", " ", "t", "=", "\"", "x", "x", "x", "x", "x", "x", "x", "x", "x", "x", "x", "x", "x", "x", "x", "x", "x", "x", "x", "x", "x", "x", "x", "x", "x", "x", "x", "x", "x", "x", ".", ".", ".", "\"", ",", " ", "n", "=", "7", ",", " ", "b", "=", "T", "r", "u", "e", ",", " ", "l", "=", "[", "2", " ", "i", "t", "e", "m", "s", "]", ",", " ", "o", "=", "{", "1", " ", "k", "e", "y", "s", "}", ")", "]">>)

\* The block of a tool result under its label.
SaidToolBlock(tool_name, shown) ==
    <<"*", "*">> \o tool_name \o <<" ", "R", "e", "s", "u", "l", "t", ":", "*", "*", "\n">>
        \o <<Backtick, Backtick, Backtick, "\n">> \o shown
        \o <<"\n", Backtick, Backtick, Backtick>>

\* The content, or its first ToolPreview characters and the marker.
SaidShown(content) ==
    IF Len(content) > ToolPreview
    THEN SubSeq(content, 1, ToolPreview) \o <<".", ".", ".", "\n", "\n", "[", "T", "o", "o", "l", " ", "r", "e", "s", "u", "l", "t", " ", "t", "r", "u", "n", "c", "a", "t", "e", "d", " ", "f", "o", "r", " ", "d", "i", "s", "p", "l", "a", "y", "]">>
    ELSE content

\* The name field of the payload, else the name of the line 'Tool: *g* done',
\* else 'Tool'.
SaidToolName(native_data) ==
    IF HasField(native_data, "name") THEN Field(native_data, "name", JNull)[2]
    ELSE IF native_data = ToolPayload(T_ToolLineOut) THEN <<"g">>
    ELSE <<"T", "o", "o", "l">>

\* C26: the rendering of a tool row with content is a block labelled with the
\* tool name: the name field of the native payload, else the name a 'Tool:'
\* line of the content gives, else 'Tool'; the block holds the trimmed content,
\* whole when it has 200 characters or fewer, else its first 200 characters
\* and the marker 'Tool result truncated for display'.
C26_ToolResultRendering ==
    \A i \in 1..Len(RenderedRows) :
        LET msg == RenderedRows[i]
        IN (msg.role = S_tool /\ Strip(msg.content_text) # <<>>) =>
              FormattedContent(msg)
                 = SaidToolBlock(SaidToolName(msg.native_data),
                                 SaidShown(Strip(msg.content_text)))

\* The transcript of a tool row of 201 characters and of a tool row without
\* a name field whose content has a 'Tool:' line was read.
C26_Witness ==
    /\ last.op = "get_display_messages"
    /\ Len(RenderedRows) = 2
    /\ RenderedRows[1].native_data = NamedToolPayload(TextOfLen(ToolPreview + 1))
    /\ RenderedRows[2].native_data = ToolPayload(T_ToolLineOut)
    /\ Len(last.res[2]) = 2
    /\ Len(Field(last.res[2][1], "content", JNull)[2])
          = Len(SaidToolBlock(<<"f">>, TextOfLen(ToolPreview))) + Len(T_Truncated)

\* The names of the entries of a tool_calls list in the OpenAI form.
CallNames(tool_calls) ==
    IF Tag(tool_calls) # "list" THEN <<>>
    ELSE [i \in 1..Len(tool_calls[2]) |->
             Field(Field(tool_calls[2][i], "function", JNull), "name", JNull)]

\* C29: the tool calls of an ollama assistant payload are those of the
\* top-level tool_calls list when that list is there and not empty, and those
\* of message.tool_calls otherwise; when both lists carry tool calls the
\* rendering has the top-level ones only, each once.
C29_OllamaTopLevelFirst ==
    \A i \in 1..Len(RenderedRows) :
        LET msg == RenderedRows[i]
            top == Field(msg.native_data, "tool_calls", JNull)
            nested == Field(Field(msg.native_data, "message", JObj(<<>>)), "tool_calls", JNull)
            names == [j \in 1..Len(NamedCalls(msg)) |-> NamedCalls(msg)[j].name]
        IN (IsAssistant(msg) /\ msg.provider_type = "ollama") =>
              /\ names = IF CallNames(top) # <<>> THEN CallNames(top) ELSE CallNames(nested)
              /\ msg.native_data = POllamaBoth => FormattedContent(msg) = <<"[", "T", "o", "o", "l", ":", " ", "f", "]">>
              /\ msg.native_data = POllamaNested => FormattedContent(msg) = <<"[", "T", "o", "o", "l", ":", " ", "g", "]">>
              /\ msg.native_data = POllamaEmptyTop => FormattedContent(msg) = <<"[", "T", "o", "o", "l", ":", " ", "g", "]">>

\* The transcript of a tool row and an ollama row with tool calls in both
\* places was read: the rendering is the top-level call.
C29_Witness ==
    /\ last.op = "get_display_messages"
    /\ Len(RenderedRows) = 2
    /\ RenderedRows[1].role = S_tool
    /\ RenderedRows[2].native_data = POllamaBoth
    /\ Len(last.res[2]) = 2
    /\ Field(last.res[2][2], "content", JNull) = JStr(<<"[", "T", "o", "o", "l", ":", " ", "f", "]">>)

-----------------------------------------------------------------------------
(* Stored JSON that does not parse *)

\* A metadata column that holds the text '{', which json.dumps never writes.
MalformedMetadata == <<Punct("{")>>

\* BNChatHistory of the file analysis.db the store is constructed over:
\* CREATE TABLE IF NOT EXISTS keeps the rows the file has.
ExistingHistories ==
    { <<>>,
      << [binary_hash |-> "h1", chat_id |-> "c1", message_order |-> 0,
          role |-> S_user, content |-> "old", metadata |-> MalformedMetadata,
          created_at |-> IsoFormat(StartClock)] >> }

\* The store constructed over an existing file.
InitExisting ==
    /\ clock = StartClock
    /\ tz = 0
    /\ BNAnalysis = {}
    /\ BNContext = {}
    /\ BNChatHistory \in ExistingHistories
    /\ BNChatMessages = <<>>
    /\ SystemPrompts = <<>>
    /\ last = [op |-> "construct", key |-> NoKey, res |-> JNull,
               again |-> FALSE, n |-> 0]
    /\ latest = [k \in AnKeys |-> [set |-> FALSE, response |-> "", metadata |-> JNull]]
    /\ written = [k \in ChatKeys |-> <<>>]
    /\ cached = [k \in CtxKeys |-> [set |-> FALSE, data |-> JNull, at |-> 0, ttl |-> 0]]
    /\ pc = [t \in Threads |-> "idle"]
    /\ lockOwner = NoThread
    /\ lockDepth = 0
    /\ conn = [t \in Threads |-> 0]
    /\ frame = [t \in Threads |-> IdleFrame]
    /\ llm_providers = <<>>
    /\ llm_seq = 0
    /\ settings = DefaultSettings
    /\ BNChatMetadata = {}
    /\ mcp_providers = <<>>
    /\ mcp_seq = 0
    /\ cls = [s \in Services |-> ImportedClass]
    /\ slock = FreeLock

\* The metadata argument of save_chat_message: None, and a dict.
ChatMetadataArgs == {JNull, JObj(<< <<"k", JNum(1)>> >>)}

NextMalformed ==
    \/ \E m \in {POpenAIRawArgs, POpenAIListArgs} : save_rendered(m, "openai")
    \/ get_display_messages(DisplayChat[1], DisplayChat[2])
    \/ \E k \in ChatKeys, metadata \in ChatMetadataArgs :
          save_chat_message(k[1], k[2], S_user, "hello", metadata)
    \/ \E k \in ChatKeys : get_chat_history(k[1], k[2])
    \/ \E k \in ChatKeys : delete_chat(k[1], k[2])

SpecMalformed == InitExisting /\ [][NextMalformed]_vars

Raised(res) == Tag(res) = "raise"

\* C28: JSON of a message that does not parse fails no read: arguments of a
\* tool call that are no JSON are rendered under the key 'raw_args',
\* arguments that parse to a value that is no object do not make
\* get_display_messages raise, and get_chat_history does not raise on a row
\* whose stored metadata does not parse.
C28_MalformedFailsNoRead ==
    /\ \A i \in 1..Len(RenderedRows) :
          RenderedRows[i].native_data = POpenAIRawArgs
              => FormattedContent(RenderedRows[i]) = <<"[", "T", "o", "o", "l", ":", " ", "f", "(", "r", "a", "w", "_", "a", "r", "g", "s", "=", "\"", "n", "o", "\"", ")", "]">>
    /\ last.op = "get_display_messages" => ~Raised(last.res)
    /\ last.op = "get_chat_history" => ~Raised(last.res)

-----------------------------------------------------------------------------
(* The exits of a call: what is left of its connection and of the lock *)

\* The connections a thread may have left open behind it.
MaxLeft == 1

\* _get_connection: sqlite3.connect has returned and one of the two PRAGMA
\* statements raises (sqlite3.OperationalError, 'database is locked').  The
\* exception leaves _get_connection and the with block; the try of the caller,
\* whose finally closes the connection, was not entered.
PragmaFails(t) ==
    /\ pc[t] = "conn"
    /\ conn[t] < MaxLeft
    /\ conn' = [conn EXCEPT ![t] = @ + 1]
    /\ frame' = [frame EXCEPT ![t].raised = TRUE]
    /\ pc' = [pc EXCEPT ![t] = "unlock"]
    /\ UNCHANGED <<BNContext, BNChatHistory, BNChatMessages, written,
                   lockOwner, lockDepth>>
    /\ ConcFrame

\* A statement inside the try raises: the except clause rolls back and raises,
\* and the finally clause is next.
StatementFails(t) ==
    /\ pc[t] \in {"select", "insert", "sweep", "commit", "read"}
    /\ frame' = [frame EXCEPT ![t].raised = TRUE, ![t].staged = FALSE]
    /\ pc' = [pc EXCEPT ![t] = "close"]
    /\ UNCHANGED <<BNContext, BNChatHistory, BNChatMessages, written,
                   lockOwner, lockDepth, conn>>
    /\ ConcFrame

\* A connection no name refers to is closed when the interpreter frees it,
\* which may be at once, later or never.
Collect(t) ==
    /\ pc[t] = "idle"
    /\ conn[t] > 0
    /\ conn' = [conn EXCEPT ![t] = @ - 1]
    /\ UNCHANGED <<BNContext, BNChatHistory, BNChatMessages, written,
                   lockOwner, lockDepth, pc, frame>>
    /\ ConcFrame

NextScoped ==
    \E t \in Threads :
        \/ \E k \in ChatKeys : call_save_native_message(t, k[1], k[2], PUser, "openai")
        \/ \E k \in ChatKeys : call_save_chat_message(t, k[1], k[2], S_user, S_text)
        \/ \E k \in ChatKeys :
              call_get_native_messages_for_provider(t, k[1], k[2], "openai")
        \/ call_cleanup_database(t)
        \/ ExtConnect(t)
        \/ ExtRun(t)
        \/ ExtClose(t)
        \/ Acquire(t)
        \/ Connect(t)
        \/ PragmaFails(t)
        \/ SelectOrder(t)
        \/ InsertRow(t)
        \/ Sweep(t)
        \/ Commit(t)
        \/ ReadRows(t)
        \/ StatementFails(t)
        \/ Close(t)
        \/ Release(t)
        \/ Collect(t)

SpecScoped == Init /\ [][NextScoped]_vars

\* C30: a thread that is in no call of the store has no connection open and
\* does not own the store lock, whether its calls returned or raised.
C30_NothingSurvivesACall ==
    \A t \in Threads : pc[t] = "idle" => (conn[t] = 0 /\ lockOwner # t)

\* The part on the lock alone.
LockNeverSurvives == \A t \in Threads : pc[t] = "idle" => lockOwner # t

-----------------------------------------------------------------------------
(* The names of the chats and their messages *)

MessageOps == {"save_chat_message", "delete_chat", "save_native_message",
               "delete_native_chat"}

\* C32: the name of a chat and its messages are independent: save_chat_metadata
\* succeeds for a chat without messages; save_chat_message, delete_chat,
\* save_native_message and delete_native_chat leave BNChatMetadata as it is;
\* save_chat_metadata and delete_chat_metadata leave BNChatHistory and
\* BNChatMessages as they are.
C32_NamesApartFromMessages ==
    [][/\ last'.op \in MessageOps => BNChatMetadata' = BNChatMetadata
       /\ last'.op \in {"save_chat_metadata", "delete_chat_metadata"} =>
             /\ BNChatHistory' = BNChatHistory
             /\ BNChatMessages' = BNChatMessages
       /\ last'.op = "save_chat_metadata" =>
             /\ last'.res = JNull
             /\ \E r \in BNChatMetadata' : ChatKeyOf(r) = last'.key]_vars

\* The native messages of a chat that has a name and legacy messages were
\* deleted: the name and the legacy messages are there.
C32_Witness ==
    /\ last.op = "delete_native_chat"
    /\ last.key = <<"h1", "c1">>
    /\ last.res = JBool(TRUE)
    /\ BNChatMessages = <<>>
    /\ \E r \in BNChatMetadata : ChatKeyOf(r) = <<"h1", "c1">>
    /\ Len(BNChatHistory) > 0

-----------------------------------------------------------------------------
(* The message sequences of several chats, in both tables *)

\* Two chats of one binary and a chat of another binary under the same id.
PartitionKeys == {<<"h1", "c1">>, <<"h1", "c2">>, <<"h2", "c1">>}

NextPartition ==
    \/ \E k \in PartitionKeys : save_chat_message(k[1], k[2], S_user, "hello", JNull)
    \/ \E k \in PartitionKeys : delete_chat(k[1], k[2])
    \/ \E k \in PartitionKeys : save_native_message(k[1], k[2], PUser, "openai")
    \/ \E k \in PartitionKeys : delete_native_chat(k[1], k[2])

SpecPartition == Init /\ [][NextPartition]_vars

LegacyOps == {"save_chat_message", "delete_chat"}
NativeOps == {"save_native_message", "delete_native_chat"}

\* The rows of a chat and the message_order its next save is given.
Sequence(table, k) == <<RowsOf(table, k[1], k[2]), NextOrder(table, k[1], k[2])>>

\* C38: a save or delete on one (binary_hash, chat_id) leaves the rows and
\* the next message_order of every other (binary_hash, chat_id) as they are,
\* in both tables; a save or delete of legacy messages leaves the rows and the
\* next message_order of every chat in BNChatMessages as they are, and a save
\* or delete of native messages those of every chat in BNChatHistory.
C38_PartitionIsolation ==
    [][/\ \A k \in PartitionKeys \ {last'.key} :
             /\ Sequence(BNChatHistory', k) = Sequence(BNChatHistory, k)
             /\ Sequence(BNChatMessages', k) = Sequence(BNChatMessages, k)
       /\ last'.op \in LegacyOps =>
             \A k \in PartitionKeys :
                 Sequence(BNChatMessages', k) = Sequence(BNChatMessages, k)
       /\ last'.op \in NativeOps =>
             \A k \in PartitionKeys :
                 Sequence(BNChatHistory', k) = Sequence(BNChatHistory, k)]_vars

\* A native message was saved to a chat of h1 while the other chat of h1, the
\* chat of h2 with the same id, and the legacy sequence of the same chat
\* hold rows.
C38_Witness ==
    /\ last.op = "save_native_message"
    /\ last.key = <<"h1", "c1">>
    /\ Len(RowsOf(BNChatMessages, "h1", "c1")) = 1
    /\ Len(RowsOf(BNChatMessages, "h1", "c2")) = 1
    /\ Len(RowsOf(BNChatMessages, "h2", "c1")) = 1
    /\ Len(RowsOf(BNChatHistory, "h1", "c1")) = 2

Orders(rows) == {rows[i].message_order : i \in 1..Len(rows)}

\* The message_order values of every chat are 0 .. k-1 for its k rows.
Dense(table) ==
    \A k \in PartitionKeys :
        LET rows == RowsOf(table, k[1], k[2])
        IN Orders(rows) = 0..(Len(rows) - 1)

\* UNIQUE(binary_hash, chat_id, message_order)
UniqueOrders(table) ==
    \A i, j \in 1..Len(table) :
        (/\ ChatKeyOf(table[i]) = ChatKeyOf(table[j])
         /\ table[i].message_order = table[j].message_order) => i = j

\* The last row of the table belongs to the chat and has message_order 0.
StartsAgain(table, key) ==
    /\ Len(table) > 0
    /\ ChatKeyOf(table[Len(table)]) = key
    /\ table[Len(table)].message_order = 0

\* C39: after every sequence of saves and deletes the message_order values
\* of every chat are exactly 0 .. k-1 for its k rows, in BNChatMessages and in
\* BNChatHistory, no two rows of a table share (binary_hash, chat_id,
\* message_order), and the save that follows a delete of the same chat is
\* given message_order 0.
C39_DenseAfterDelete ==
    /\ [](Dense(BNChatMessages) /\ Dense(BNChatHistory))
    /\ [](UniqueOrders(BNChatMessages) /\ UniqueOrders(BNChatHistory))
    /\ [][/\ (last.op = "delete_native_chat" /\ last'.op = "save_native_message"
              /\ last'.key = last.key) => StartsAgain(BNChatMessages', last.key)
          /\ (last.op = "delete_chat" /\ last'.op = "save_chat_message"
              /\ last'.key = last.key) => StartsAgain(BNChatHistory', last.key)]_vars

\* The native messages of a chat were deleted while another chat of the
\* binary holds two rows and the chat itself legacy rows: the other chat
\* keeps 0 and 1, and the chat starts again.
C39_Witness ==
    /\ last.op = "delete_native_chat"
    /\ last.key = <<"h1", "c1">>
    /\ last.res = JBool(TRUE)
    /\ Orders(RowsOf(BNChatMessages, "h1", "c2")) = {0, 1}
    /\ Orders(RowsOf(BNChatHistory, "h1", "c1")) = {0, 1}
    /\ NextOrder(BNChatMessages, "h1", "c1") = 0

-----------------------------------------------------------------------------
(* The reads *)

\* The hour the clock of the reads stops at.
ReadsMaxClock == 30

\* MIN(created_at) and MAX(created_at) of the rows of a group.
MinCreated(rows) ==
    CHOOSE t \in {rows[i].created_at : i \in 1..Len(rows)} :
        \A i \in 1..Len(rows) : ~TextLess(rows[i].created_at, t)

MaxCreated(rows) ==
    CHOOSE t \in {rows[i].created_at : i \in 1..Len(rows)} :
        \A i \in 1..Len(rows) : ~TextLess(t, rows[i].created_at)

\* A row of SELECT chat_id, COUNT(*), MIN(created_at), MAX(created_at)
\* ... GROUP BY chat_id, as the dict get_all_chats builds from it.
ChatSummary(b, c) ==
    LET rows == RowsOf(BNChatMessages, b, c)
    IN [chat_id |-> c, last_message |-> MaxCreated(rows),
        dict |-> JObj(<< <<"binary_hash", JStr(b)>>,
                         <<"chat_id", JStr(c)>>,
                         <<"message_count", JNum(Len(rows))>>,
                         <<"first_message", JStr(MinCreated(rows))>>,
                         <<"last_message", JStr(MaxCreated(rows))>> >>)]

\* ORDER BY last_message DESC: the groups of equal last_message in any order.
ChatSummaries(b) ==
    LET groups == {ChatSummary(b, c) :
                      c \in {r.chat_id : r \in {BNChatMessages[i] :
                                i \in {j \in 1..Len(BNChatMessages) :
                                         BNChatMessages[j].binary_hash = b}}}}
    IN {order \in [1..Cardinality(groups) -> groups] :
           /\ \A i, j \in 1..Cardinality(groups) : i # j => order[i] # order[j]
           /\ \A i, j \in 1..Cardinality(groups) :
                 i < j => ~TextLess(order[i].last_message, order[j].last_message)}

get_all_chats(b) ==
    /\ \E order \in ChatSummaries(b) :
          last' = Ret("get_all_chats", <<b>>,
                      JList([i \in 1..Len(order) |-> order[i].dict]))
    /\ UNCHANGED <<BNChatHistory, BNChatMetadata, mcp_providers, mcp_seq, settings>>
    /\ OtherAnalysisTables
    /\ NoThreadMoves

\* The five counts of get_database_stats.
DatabaseStats ==
    JObj(<< <<"total_analyses", JNum(Cardinality(BNAnalysis))>>,
            <<"cached_contexts", JNum(Cardinality(BNContext))>>,
            <<"total_chat_messages", JNum(Len(BNChatHistory))>>,
            <<"unique_binaries",
              JNum(Cardinality({r.binary_hash : r \in BNAnalysis}))>>,
            <<"system_prompts", JNum(Len(SystemPrompts))>> >>)

get_database_stats ==
    /\ last' = Ret("get_database_stats", NoKey, DatabaseStats)
    /\ UNCHANGED <<BNChatHistory, BNChatMetadata, mcp_providers, mcp_seq, settings>>
    /\ OtherAnalysisTables
    /\ NoThreadMoves

NextReads ==
    \/ save_function_analysis("h1", 1, "explain", "r1", JNull)
    \/ delete_function_analysis("h1", 1, "explain")
    \/ save_context_cache("h1", 1, LookupCtx, 1)
    \/ cleanup_expired_context
    \/ first_save_chat_message("h1", "c1", S_user, "hello", JNull)
    \/ delete_chat("h1", "c1")
    \/ first_save_native_message("h1", "c1", PUser, "openai")
    \/ delete_native_chat("h1", "c1")
    \/ save_chat_metadata("h1", "c1", "n1")
    \/ delete_chat_metadata("h1", "c1")
    \/ first_save_system_prompt("p1", "v1")
    \/ set_active_system_prompt("v1")
    \/ (clock + TickHours <= ReadsMaxClock /\ Tick)
    \/ get_function_analysis("h1", 1, "explain")
    \/ get_function_analyses("h1", 1)
    \/ get_context_cache("h1", 1)
    \/ get_chat_history("h1", "c1")
    \/ get_all_chats("h1")
    \/ get_native_messages("h1", "c1", JNull)
    \/ get_native_messages_for_provider("h1", "c1", "openai")
    \/ get_display_messages("h1", "c1")
    \/ get_chat_metadata("h1", "c1")
    \/ get_all_chat_metadata("h1")
    \/ get_active_system_prompt
    \/ get_database_stats

\* A host five hours behind UTC.
InitWest == Construct /\ tz = -5

SpecReads == InitWest /\ [][NextReads]_vars

ReadOps ==
    {"get_function_analysis", "get_function_analyses", "get_context_cache",
     "get_chat_history", "get_all_chats", "get_native_messages",
     "get_native_messages_for_provider", "get_display_messages",
     "get_chat_metadata", "get_all_chat_metadata", "get_active_system_prompt",
     "get_database_stats"}

RemovingOps ==
    {"delete_function_analysis", "delete_chat", "delete_native_chat",
     "delete_chat_metadata", "cleanup_expired_context"}

\* The tables of analysis.db.
AnalysisTables ==
    <<BNAnalysis, BNContext, BNChatHistory, BNChatMessages, BNChatMetadata,
      SystemPrompts>>

\* The keys of the rows of analysis.db.
RowKeys ==
    {<<"BNAnalysis", AnKeyOf(r)>> : r \in BNAnalysis}
    \cup {<<"BNContext", CtxKeyOf(r)>> : r \in BNContext}
    \cup {<<"BNChatMetadata", ChatKeyOf(r)>> : r \in BNChatMetadata}
    \cup {<<"BNChatHistory", <<BNChatHistory[i].binary_hash, BNChatHistory[i].chat_id,
                               BNChatHistory[i].message_order>> >> :
             i \in 1..Len(BNChatHistory)}
    \cup {<<"BNChatMessages", <<BNChatMessages[i].binary_hash, BNChatMessages[i].chat_id,
                                BNChatMessages[i].message_order>> >> :
             i \in 1..Len(BNChatMessages)}
    \cup {<<"SystemPrompts", <<i>> >> : i \in 1..Len(SystemPrompts)}

-----------------------------------------------------------------------------
(* The active provider *)

ActiveProviders(table) == {r \in RowSet(table) : r.is_active}

\* C36: at most one row of llm_providers has is_active = 1, after every
\* sequence of add_llm_provider, update_llm_provider, delete_llm_provider,
\* set_active_llm_provider and get_active_llm_provider.
C36_AtMostOneActiveProvider == Cardinality(ActiveProviders(llm_providers)) <= 1

NextActive ==
    \/ NextSettings
    \/ delete_setting("active_llm_provider")

SpecActive == Init /\ [][NextActive]_vars

\* The rows the setting active_llm_provider names.
SavedProviders ==
    {r \in RowSet(llm_providers) :
        \E st \in settings : st.key = "active_llm_provider" /\ st.value = r.name}

\* C37: get_active_llm_provider returns an active provider when there is one
\* and writes nothing; with no provider active and the setting
\* active_llm_provider naming a provider of the table, it sets the flag of that
\* provider, of no other, and returns it; with the setting missing or naming
\* no provider of the table it returns None and writes nothing. The
\* get_active_llm_provider that follows set_active_llm_provider(n), n a
\* provider of the table, returns n.
C37_ActiveProviderLookup ==
    [][last'.op = "get_active_llm_provider" =>
          /\ settings' = settings
          /\ ActiveProviders(llm_providers) # {} =>
                /\ llm_providers' = llm_providers
                /\ \E r \in ActiveProviders(llm_providers) : last'.res = ProviderDict(r)
          /\ (ActiveProviders(llm_providers) = {} /\ SavedProviders # {}) =>
                \E r \in SavedProviders :
                   /\ last'.res = ProviderDict(r)
                   /\ llm_providers' =
                         [i \in 1..Len(llm_providers) |->
                             IF llm_providers[i].id = r.id
                             THEN [llm_providers[i] EXCEPT !.is_active = TRUE]
                             ELSE llm_providers[i]]
          /\ (ActiveProviders(llm_providers) = {} /\ SavedProviders = {}) =>
                /\ last'.res = JNull
                /\ llm_providers' = llm_providers
          /\ (last.op = "set_active_llm_provider"
              /\ last.key[1] \in NamesOf(llm_providers)) =>
                \E r \in RowSet(llm_providers) :
                   r.name = last.key[1] /\ last'.res = ProviderDict(r)]_vars

\* With two providers in the table, none of them active before the call,
\* get_active_llm_provider returned the one the setting names and that one
\* alone is active.
C37_Witness ==
    /\ last.op = "get_active_llm_provider"
    /\ last.again = FALSE
    /\ Len(llm_providers) = 2
    /\ \E r \in ActiveProviders(llm_providers) :
          /\ ActiveProviders(llm_providers) = {r}
          /\ last.res = ProviderDict(r)
          /\ r \in SavedProviders
          /\ r.id = 3

-----------------------------------------------------------------------------
(* The construction of the singletons, statement by statement *)

\* A service whose module no thread has imported yet.
AbsentClass ==
    [module |-> "absent", importer |-> NoThread, new_lock |-> NoThread,
     instance |-> 0, initialized |-> FALSE, db_locks |-> 0, db_path |-> "unset",
     inits |-> 0]

InitUnimported ==
    /\ clock = StartClock
    /\ tz = 0
    /\ BNAnalysis = {}
    /\ BNContext = {}
    /\ BNChatHistory = <<>>
    /\ BNChatMessages = <<>>
    /\ SystemPrompts = <<>>
    /\ last = [op |-> "construct", key |-> NoKey, res |-> JNull,
               again |-> FALSE, n |-> 0]
    /\ latest = [k \in AnKeys |-> [set |-> FALSE, response |-> "", metadata |-> JNull]]
    /\ written = [k \in ChatKeys |-> <<>>]
    /\ cached = [k \in CtxKeys |-> [set |-> FALSE, data |-> JNull, at |-> 0, ttl |-> 0]]
    /\ pc = [t \in Threads |-> "idle"]
    /\ lockOwner = NoThread
    /\ lockDepth = 0
    /\ conn = [t \in Threads |-> 0]
    /\ frame = [t \in Threads |-> IdleFrame]
    /\ llm_providers = <<>>
    /\ llm_seq = 0
    /\ settings = DefaultSettings
    /\ BNChatMetadata = {}
    /\ mcp_providers = <<>>
    /\ mcp_seq = 0
    /\ cls = [s \in Services |-> AbsentClass]
    /\ slock = FreeLock

\* The class statement of the module has run: the name is bound.
ClassDefined(s) == cls[s].module # "absent"

\* A thread gets the class from the module once the import of the module is
\* over: the import lock of the module keeps it waiting until then.
ModuleReady(s) == cls[s].module = "imported"

\* The steps on the construction leave the stores and the store locks alone.
ClassFrame ==
    UNCHANGED <<clock, tz, BNAnalysis, BNContext, BNChatHistory, BNChatMessages,
                SystemPrompts, latest, written, cached, lockOwner, lockDepth, conn,
                llm_providers, llm_seq, settings, BNChatMetadata, mcp_providers,
                mcp_seq, slock>>

\* The service a thread is constructing.
Of(t) == frame[t].op

Goto(t, where) == pc' = [pc EXCEPT ![t] = where]

\* The first import of the module: its last statement constructs the service.
import_module(t, s) ==
    /\ pc[t] = "idle"
    /\ cls[s].module = "absent"
    /\ cls' = [cls EXCEPT ![s].module = "importing", ![s].importer = t]
    /\ frame' = [frame EXCEPT ![t] = [IdleFrame EXCEPT !.op = s]]
    /\ Goto(t, "new_check")
    /\ UNCHANGED last
    /\ ClassFrame

\* AnalysisDBService() or SettingsService() in a thread that has the class.
call_constructor(t, s) ==
    /\ pc[t] = "idle"
    /\ ModuleReady(s)
    /\ frame' = [frame EXCEPT ![t] = [IdleFrame EXCEPT !.op = s]]
    /\ Goto(t, "new_check")
    /\ UNCHANGED <<cls, last>>
    /\ ClassFrame

\* __new__: if cls._instance is None
NewCheck(t) ==
    /\ pc[t] = "new_check"
    /\ Goto(t, IF cls[Of(t)].instance = 0 THEN "new_lock" ELSE "init_check")
    /\ UNCHANGED <<cls, frame, last>>
    /\ ClassFrame

\* __new__: with cls._lock
NewLock(t) ==
    /\ pc[t] = "new_lock"
    /\ cls[Of(t)].new_lock = NoThread
    /\ cls' = [cls EXCEPT ![Of(t)].new_lock = t]
    /\ Goto(t, "new_recheck")
    /\ UNCHANGED <<frame, last>>
    /\ ClassFrame

\* __new__: if cls._instance is None: cls._instance = super().__new__(cls),
\* and the end of the with block.
NewRecheck(t) ==
    /\ pc[t] = "new_recheck"
    /\ cls' = [cls EXCEPT ![Of(t)].new_lock = NoThread,
                          ![Of(t)].instance = IF @ = 0 THEN 1 ELSE @]
    /\ Goto(t, "init_check")
    /\ UNCHANGED <<frame, last>>
    /\ ClassFrame

\* __init__: if hasattr(self, '_initialized'): return
InitCheck(t) ==
    /\ pc[t] = "init_check"
    /\ Goto(t, IF cls[Of(t)].initialized THEN "return" ELSE "init_flag")
    /\ UNCHANGED <<cls, frame, last>>
    /\ ClassFrame

\* __init__: self._initialized = True
InitFlag(t) ==
    /\ pc[t] = "init_flag"
    /\ cls' = [cls EXCEPT ![Of(t)].initialized = TRUE, ![Of(t)].inits = @ + 1]
    /\ Goto(t, "init_lock")
    /\ UNCHANGED <<frame, last>>
    /\ ClassFrame

\* __init__: self._db_lock = threading.RLock(); self._db_path = None
InitLock(t) ==
    /\ pc[t] = "init_lock"
    /\ cls' = [cls EXCEPT ![Of(t)].db_locks = @ + 1, ![Of(t)].db_path = "none"]
    /\ Goto(t, "init_database")
    /\ UNCHANGED <<frame, last>>
    /\ ClassFrame

\* __init__: self._init_database(), which sets self._db_path
InitDatabase(t) ==
    /\ pc[t] = "init_database"
    /\ cls' = [cls EXCEPT ![Of(t)].db_path = "path"]
    /\ Goto(t, "init_tables")
    /\ UNCHANGED <<frame, last>>
    /\ ClassFrame

\* __init__: self._create_tables(); self._run_migrations()
InitTables(t) ==
    /\ pc[t] = "init_tables"
    /\ Goto(t, "return")
    /\ UNCHANGED <<cls, frame, last>>
    /\ ClassFrame

\* The constructor returns the instance; for the importing thread the module
\* is complete.
Return(t) ==
    /\ pc[t] = "return"
    /\ cls' = IF cls[Of(t)].importer = t
              THEN [cls EXCEPT ![Of(t)].module = "imported",
                               ![Of(t)].importer = NoThread]
              ELSE cls
    /\ Goto(t, "have")
    /\ UNCHANGED <<frame, last>>
    /\ ClassFrame

\* An operation on the instance the thread has: `with self._db_lock` raises
\* AttributeError when the attribute is not set, and sqlite3.connect raises
\* TypeError on a _db_path that is None.
Operate(t) ==
    /\ pc[t] = "have"
    /\ last' = Ret("operate", <<Of(t)>>,
                   IF cls[Of(t)].db_locks = 0 THEN Raise("AttributeError")
                   ELSE IF cls[Of(t)].db_path # "path" THEN Raise("TypeError")
                   ELSE JNull)
    /\ frame' = [frame EXCEPT ![t] = IdleFrame]
    /\ Goto(t, "idle")
    /\ UNCHANGED cls
    /\ ClassFrame

NextSingleton ==
    \E t \in Threads :
        \/ \E s \in Services : import_module(t, s)
        \/ \E s \in Services : call_constructor(t, s)
        \/ NewCheck(t)
        \/ NewLock(t)
        \/ NewRecheck(t)
        \/ InitCheck(t)
        \/ InitFlag(t)
        \/ InitLock(t)
        \/ InitDatabase(t)
        \/ InitTables(t)
        \/ Return(t)
        \/ Operate(t)

SpecSingleton == InitUnimported /\ [][NextSingleton]_vars

\* C35: of each service one instance is made, its initialisation body runs
\* once, one _db_lock is made for it, and a thread that has the instance from
\* the constructor finds _db_lock and _db_path set: no operation raises for
\* want of them.
C35_OneInstanceInitialisedOnce ==
    /\ \A s \in Services :
          /\ cls[s].instance <= 1
          /\ cls[s].inits <= 1
          /\ cls[s].db_locks <= 1
          /\ \A t \in Threads :
                (pc[t] = "have" /\ Of(t) = s) =>
                    (cls[s].db_locks = 1 /\ cls[s].db_path = "path")
    /\ last.op = "operate" => last.res = JNull

\* Both threads have the instance of one service from the constructor, one of
\* them after an operation of the other.
C35_Witness ==
    /\ \A t \in Threads : pc[t] = "have" /\ Of(t) = "analysis"
    /\ last.op = "operate"
    /\ last.key = <<"analysis">>
    /\ cls["analysis"].inits = 1

-----------------------------------------------------------------------------
(* SettingsService.save_system_prompt in several threads.  Each of its three *)
(* calls is a whole operation under the lock of its service; nothing is held *)
(* from one call to the next.                                                *)

\* The locals of a thread inside SettingsService.save_system_prompt.
PromptFrame(prompt, version) ==
    [IdleFrame EXCEPT !.op = "SettingsService.save_system_prompt",
                      !.m = JObj(<< <<"prompt", JStr(prompt)>>,
                                    <<"version", JStr(version)>> >>)]

PromptOf(t) == Field(frame[t].m, "prompt", JNull)[2]
VersionOf(t) == Field(frame[t].m, "version", JNull)[2]

\* The versions of the calls that have not returned.
VersionsInFlight == {VersionOf(t) : t \in {u \in Threads : pc[u] # "idle"}}

\* The steps of the call leave the other tables, the locks and the classes alone.
MirrorFrame ==
    UNCHANGED <<clock, tz, BNAnalysis, BNContext, BNChatHistory, BNChatMessages,
                latest, written, cached, lockOwner, lockDepth, conn,
                llm_providers, llm_seq, BNChatMetadata, mcp_providers, mcp_seq,
                cls, slock>>

\* save_system_prompt(prompt, version) with a version no row and no other
\* call has.
call_settings_save_system_prompt(t, prompt, version) ==
    /\ pc[t] = "idle"
    /\ RowsOfVersion(SystemPrompts, version) = 0
    /\ version \notin VersionsInFlight
    /\ frame' = [frame EXCEPT ![t] = PromptFrame(prompt, version)]
    /\ Goto(t, "sp_save")
    /\ UNCHANGED <<SystemPrompts, settings, last>>
    /\ MirrorFrame

\* analysis_db_service.save_system_prompt(prompt, version)
SaveVersion(t) ==
    /\ pc[t] = "sp_save"
    /\ SystemPrompts' = Append(SystemPrompts, PromptRow(PromptOf(t), VersionOf(t)))
    /\ Goto(t, "sp_activate")
    /\ UNCHANGED <<settings, frame, last>>
    /\ MirrorFrame

\* analysis_db_service.set_active_system_prompt(version)
ActivateSaved(t) ==
    /\ pc[t] = "sp_activate"
    /\ SystemPrompts' = ActivateVersion(DeactivateAll(SystemPrompts), VersionOf(t))
    /\ Goto(t, "sp_mirror")
    /\ UNCHANGED <<settings, frame, last>>
    /\ MirrorFrame

\* self.set_setting('system_prompt', prompt, 'system'); return True
MirrorSetting(t) ==
    /\ pc[t] = "sp_mirror"
    /\ settings' = PutSetting(settings, "system_prompt", PromptOf(t), "system")
    /\ last' = Ret("SettingsService.save_system_prompt", <<VersionOf(t)>>, JBool(TRUE))
    /\ frame' = [frame EXCEPT ![t] = IdleFrame]
    /\ Goto(t, "idle")
    /\ UNCHANGED SystemPrompts
    /\ MirrorFrame

NextMirror ==
    \E t \in Threads :
        \/ \E p \in Prompts, v \in Versions : call_settings_save_system_prompt(t, p, v)
        \/ SaveVersion(t)
        \/ ActivateSaved(t)
        \/ MirrorSetting(t)

SpecMirror == Init /\ [][NextMirror]_vars

\* The text the setting system_prompt holds.
MirroredPrompts == {st.value : st \in {r \in settings : r.key = "system_prompt"}}

\* C34: when every call of SettingsService.save_system_prompt has returned,
\* one row of SystemPrompts is active, and the setting system_prompt holds
\* the prompt of that row.
C34_MirrorAgreesWithActive ==
    ((\A t \in Threads : pc[t] = "idle") /\ Len(SystemPrompts) > 0) =>
        /\ Cardinality(ActiveRows) = 1
        /\ \A i \in ActiveRows : MirroredPrompts = {SystemPrompts[i].prompt}

\* In every state one row at most is active: the interleaving does not
\* double the flag.
OneActiveAtMost == Cardinality(ActiveRows) <= 1

-----------------------------------------------------------------------------
(* Calls that make other locked calls, in several threads, with the lock of *)
(* each service                                                             *)

MaxLivePrompts == 1

\* A call an operation makes: the service whose _db_lock its body takes
\* ("none" for DatabaseCleanup, which takes no lock of the services).
Call(lock, name) == [lock |-> lock, name |-> name]

\* The calls an operation makes, in order.
Calls(op) ==
    CASE op = "cleanup_database" ->
            << Call("none", "DatabaseCleanup.cleanup_expired_data"),
               Call("analysis", "cleanup_expired_context") >>
      [] op = "get_database_info" ->
            << Call("none", "DatabaseCleanup.get_database_size_info"),
               Call("analysis", "get_database_stats") >>
      [] op = "SettingsService.get_system_prompt" ->
            << Call("analysis", "get_active_system_prompt"),
               Call("settings", "get_setting") >>
      [] OTHER ->
            << Call("analysis", "save_system_prompt"),
               Call("analysis", "set_active_system_prompt"),
               Call("settings", "set_setting") >>

LiveOps ==
    {"cleanup_database", "get_database_info", "SettingsService.get_system_prompt",
     "SettingsService.save_system_prompt"}

\* The call a thread is at.
Current(t) == Calls(frame[t].op)[frame[t].order]

\* An RLock after an acquire and after a release by its owner.
Taken(lock, t) == [owner |-> t, depth |-> lock.depth + 1]

StillOwned(lock) == lock

Freed(lock) ==
    [owner |-> IF lock.depth = 1 THEN NoThread ELSE lock.owner, depth |-> lock.depth - 1]

\* _db_lock of AnalysisDBService, as a record.
alock == [owner |-> lockOwner, depth |-> lockDepth]

LockOf(service) == IF service = "analysis" THEN alock ELSE slock

\* An RLock is taken when no thread or the thread itself owns it.
CanTake(lock, t) == lock.owner = NoThread \/ lock.owner = t

SetLocks(service, lock) ==
    /\ lockOwner' = IF service = "analysis" THEN lock.owner ELSE lockOwner
    /\ lockDepth' = IF service = "analysis" THEN lock.depth ELSE lockDepth
    /\ slock' = IF service = "settings" THEN lock ELSE slock

\* The save_system_prompt calls that have not inserted their row yet.
PromptSavesInFlight ==
    Cardinality({t \in Threads :
        /\ pc[t] # "idle"
        /\ frame[t].op = "SettingsService.save_system_prompt"
        /\ frame[t].order = 1})

LiveFrame ==
    UNCHANGED <<clock, tz, BNAnalysis, BNChatHistory, BNChatMessages, latest, written,
                cached, conn, llm_providers, llm_seq, BNChatMetadata, mcp_providers,
                mcp_seq, cls>>

call_operation(t, op) ==
    /\ pc[t] = "idle"
    /\ op = "SettingsService.save_system_prompt" =>
          Len(SystemPrompts) + PromptSavesInFlight < MaxLivePrompts
    /\ frame' = [frame EXCEPT ![t] = [IdleFrame EXCEPT !.op = op, !.order = 1]]
    /\ Goto(t, "enter")
    /\ UNCHANGED <<BNContext, SystemPrompts, settings, last, lockOwner, lockDepth, slock>>
    /\ LiveFrame

\* with self._db_lock: the thread waits until it can take the lock.
Enter(t) ==
    /\ pc[t] = "enter"
    /\ IF Current(t).lock = "none"
       THEN UNCHANGED <<lockOwner, lockDepth, slock>>
       ELSE /\ CanTake(LockOf(Current(t).lock), t)
            /\ SetLocks(Current(t).lock, Taken(LockOf(Current(t).lock), t))
    /\ Goto(t, "body")
    /\ UNCHANGED <<BNContext, SystemPrompts, settings, last, frame>>
    /\ LiveFrame

\* The statements of the call, from the connect to the close.
Body(t) ==
    /\ pc[t] = "body"
    /\ BNContext' =
          IF Current(t).name \in {"DatabaseCleanup.cleanup_expired_data",
                                  "cleanup_expired_context"}
          THEN DeleteRows(BNContext, {r \in BNContext : ContextExpired(r)})
          ELSE BNContext
    /\ SystemPrompts' =
          CASE Current(t).name = "save_system_prompt" ->
                  Append(SystemPrompts, PromptRow("p1", "v1"))
            [] Current(t).name = "set_active_system_prompt" ->
                  ActivateVersion(DeactivateAll(SystemPrompts), "v1")
            [] OTHER -> SystemPrompts
    /\ settings' =
          IF Current(t).name = "set_setting"
          THEN PutSetting(settings, "system_prompt", "p1", "system")
          ELSE settings
    /\ frame' = [frame EXCEPT ![t].res =
          IF Current(t).name = "get_active_system_prompt" /\ ActiveRows # {}
          THEN JStr("p1") ELSE JNull]
    /\ Goto(t, "leave")
    /\ UNCHANGED <<last, lockOwner, lockDepth, slock>>
    /\ LiveFrame

\* A statement of the call raises: the with block is left, the lock
\* released, and the operation raises or returns what its handler returns.
Fails(t) ==
    /\ pc[t] = "body"
    /\ IF Current(t).lock = "none"
       THEN UNCHANGED <<lockOwner, lockDepth, slock>>
       ELSE SetLocks(Current(t).lock, Freed(LockOf(Current(t).lock)))
    /\ frame' = [frame EXCEPT ![t] = IdleFrame]
    /\ Goto(t, "idle")
    /\ UNCHANGED <<BNContext, SystemPrompts, settings, last>>
    /\ LiveFrame

\* The operation is over after this call: it was the last one, or
\* get_system_prompt has its prompt.
Over(t) ==
    \/ frame[t].order = Len(Calls(frame[t].op))
    \/ (frame[t].op = "SettingsService.get_system_prompt" /\ frame[t].res # JNull)

\* The end of the with block, and the next call or the return.
Leave(t) ==
    /\ pc[t] = "leave"
    /\ IF Current(t).lock = "none"
       THEN UNCHANGED <<lockOwner, lockDepth, slock>>
       ELSE SetLocks(Current(t).lock, Freed(LockOf(Current(t).lock)))
    /\ IF Over(t)
       THEN /\ Goto(t, "idle")
            /\ frame' = [frame EXCEPT ![t] = IdleFrame]
       ELSE /\ Goto(t, "enter")
            /\ frame' = [frame EXCEPT ![t].order = @ + 1]
    /\ UNCHANGED <<BNContext, SystemPrompts, settings, last>>
    /\ LiveFrame

NextLive ==
    \E t \in Threads :
        \/ \E op \in LiveOps : call_operation(t, op)
        \/ Enter(t)
        \/ Body(t)
        \/ Fails(t)
        \/ Leave(t)

\* A thread inside an operation goes on; a thread that can take the lock it
\* waits for again and again takes it.
Fairness ==
    \A t \in Threads :
        /\ SF_vars(Enter(t))
        /\ WF_vars(Body(t))
        /\ WF_vars(Leave(t))

SpecLive == Init /\ [][NextLive]_vars /\ Fairness

\* A thread that waits for a lock owns none.
WaitsEmptyHanded ==
    \A t \in Threads : pc[t] = "enter" => (lockOwner # t /\ slock.owner # t)

=============================================================================
